---- MODULE Spec2Model ----
(***************************************************************************)
(* Aether-Desk: the wallpaper orchestration core.                          *)
(*                                                                         *)
(*   Part I   ResourceManager  (src/src/core/resource_manager.rs)          *)
(*   Part II  WallpaperScheduler, the wallpaper backends it drives and the *)
(*            manual apply/stop entry points of the UI                     *)
(*            (src/src/core/scheduler.rs, src/src/wallpapers/*.rs,         *)
(*             src/src/ui/app.rs)                                          *)
(*                                                                         *)
(* Part I runs under SpecRM (SpecRMWide with wider integers, SpecLocks for *)
(* the order in which calls take the two locks, SpecRace for concurrent    *)
(* register_resource calls taken block by block).                          *)
(* Part II runs under SpecSched (the scheduler with the UI acting beside   *)
(* it, over a short stretch of time), under SpecStore (the same with the   *)
(* schedule file) and under SpecStop (the stopping of the loop), and under *)
(* SpecClock (the scheduler loop over two days of the scaled calendar,     *)
(* with a wall clock that can be set back).  The variables of the other    *)
(* part stay at their initial values.                                      *)
(*                                                                         *)
(*   Part III The wallpaper backends and the platform managers beneath     *)
(*            them (src/src/wallpapers/*.rs, src/src/platform/mod.rs,      *)
(*            src/src/platform/linux/mod.rs, src/src/platform/hyprland.rs) *)
(*                                                                         *)
(* Part III runs under SpecBackend: one backend object of each type, its   *)
(* start/stop/pause/resume called one at a time, with the external tools   *)
(* and helper processes answering in every way they can.                   *)
(***************************************************************************)
EXTENDS Integers, Sequences, FiniteSets, TLC

VARIABLES
    \* ---- ResourceManager ----
    usage,              \* ResourceManager.usage: the aggregate ResourceUsage
    active_resources,   \* ResourceManager.active_resources: id -> ResourceUsage
    total_allocated,    \* ResourceManager.total_allocated
    total_freed,        \* ResourceManager.total_freed
    limits,             \* ResourceManager.limits (fixed at construction)
    overflow_checks,    \* whether the build checks integer overflow
    rm_call,            \* the last call made on the manager and its result
    \* ---- the manager's two RwLocks and the tasks that call it ----
    task_call,          \* per task: the path of its call, its position, whether it waits
    lock_holders,       \* per lock: who holds it, and in which mode
    lock_queue,         \* per lock: the waiters, in order of arrival
    reg_call,           \* per task: the register_resource call it is in, and how far
    \* ---- WallpaperScheduler ----
    now,                \* the wall clock (Local::now()), in seconds
    skew,               \* seconds the wall clock has been set back so far
    is_running,         \* WallpaperScheduler.is_running
    scheduler_thread,   \* WallpaperScheduler.scheduler_thread: "Some" or "None"
    last_check,         \* WallpaperScheduler.last_check
    schedule_items,     \* WallpaperScheduler.schedule_items
    current_wallpaper,  \* WallpaperScheduler.current_wallpaper: the scheduler's slot
    \* ---- the scheduler's background thread ----
    pc,                 \* where the thread is: "none" when there is no thread
    live_loops,         \* number of threads spawned by start() that have not exited
    loop_now,           \* its local `now`, read at the top of the loop body
    idx,                \* position of `for item in items.iter()`, from 1
    wake_at,            \* end of thread::sleep(check_interval)
    \* ---- AetherDeskApp (the UI thread, owner of the scheduler) ----
    ui_current_wallpaper,   \* AetherDeskApp.current_wallpaper: the UI's slot
    owner_pc,           \* "idle", or "joining" inside WallpaperScheduler::stop
    edits,              \* number of schedule mutations made so far
    edit_result,        \* what the latest schedule mutation returned: "none" before any
    loaded,             \* whether load_schedule has been called
    load_result,        \* what load_schedule returned: "none" before the call
    store,              \* the schedule file
    \* ---- the desktop ----
    started,            \* ids of the active backends: started, not yet stopped
    \* ---- records of what happened, for the properties ----
    apply_rec,          \* the scheduler's latest apply_wallpaper call
    pass_rec,           \* the latest evaluation pass
    last_tick,          \* the latest loop tick
    prev_tick,          \* the tick before it
    time_fires,         \* the Time items fired so far
    horizon,            \* the time up to which the clock is followed
    \* ---- one wallpaper backend and the platform manager behind it ----
    platform,           \* the manager create_wallpaper_manager built: "linux" or "hyprland"
    manager_current_wallpaper,  \* LinuxWallpaperManager.current_wallpaper
    wallpaper,          \* the backend object: its type and its fields
    pid_mutex,          \* the tokio Mutex around the cached helper PID: "free" or "held"
    wp_pc,              \* where the backend's caller is: "idle", or "lock" at a lock().await
    processes,          \* the process table: pid -> "none", "running", "stopped", "exited"
    wp_call             \* the latest call made on the backend

rmVars ==
    <<usage, active_resources, total_allocated, total_freed, limits, overflow_checks,
      rm_call>>

schedVars ==
    <<now, skew, is_running, scheduler_thread, last_check, schedule_items, current_wallpaper,
      pc, loop_now, idx, wake_at, ui_current_wallpaper, owner_pc, edits, loaded,
      started, apply_rec, pass_rec, last_tick, prev_tick, time_fires, horizon,
      live_loops, load_result, store, edit_result>>

lockVars == <<task_call, lock_holders, lock_queue, reg_call>>

backendVars ==
    <<platform, manager_current_wallpaper, wallpaper, pid_mutex, wp_pc, processes, wp_call>>

vars == <<rmVars, schedVars, lockVars, backendVars>>

(***************************************************************************)
(* Part I.  ResourceManager                                                *)
(*                                                                         *)
(* Byte counts are u64 and CPU is f32 in the source.  The model keeps the  *)
(* arithmetic and scales the widths down: an unsigned word has Bits bits,  *)
(* `as i64` reinterprets it in two's complement, and an f32 keeps          *)
(* MantissaBits significant bits, rounding to nearest, ties to even.  An   *)
(* integer overflow panics in a build with overflow checks and wraps in a  *)
(* build without them; which build runs is fixed at the start.             *)
(***************************************************************************)

\* Bounds of the model.
Bits     == 5       \* width of u64 / i64
MantissaBits == 2   \* significant bits of f32
MaxMem   == 2       \* largest ordinary memory_used of one call's argument
MaxGpu   == 1       \* largest gpu_memory_used of one call's argument
MaxCpu   == 1       \* largest cpu_usage of one call's argument
MaxTotal == 3       \* calls are made while the audit counters are below this
MaxProcs == 3       \* ... and while active_processes is below this
MaxAggCpu == 2      \* ... and while the aggregate cpu_usage is below this

ResourceIds == {"a", "b"}

\* ---- machine arithmetic ----

U64Modulus == 2 ^ Bits
U64Max == U64Modulus - 1
I64Max == 2 ^ (Bits - 1) - 1
I64Min == -(2 ^ (Bits - 1))

\* wrapping to u64
WrapU64(x) == x % U64Modulus

\* `x as i64` for a u64 x, and `v as u64` for an i64 v
AsI64(x) == IF x > I64Max THEN x - U64Modulus ELSE x
AsU64(v) == v % U64Modulus

\* whether the exact result v of an i64 operation overflows, and what the
\* operation leaves when it wraps
I64Overflows(v) == v < I64Min \/ v > I64Max
WrapI64(v) == AsI64(v % U64Modulus)

\* wrapping subtraction, in place of the saturating one
WrappingSub(a, b) == WrapU64(a - b)

\* u64::saturating_sub
SaturatingSub(a, b) == IF a >= b THEN a - b ELSE 0

RECURSIVE Ulp(_, _)
\* the spacing of the f32 values around x >= 0, starting the search at u
Ulp(x, u) == IF x < (2 ^ MantissaBits) * u THEN u ELSE Ulp(x, 2 * u)

\* the f32 nearest to x >= 0, ties to even
F32Nearest(x) ==
    LET u == Ulp(x, 1)
        q == x \div u
        r == x % u
    IN  IF 2 * r > u \/ (2 * r = u /\ q % 2 = 1) THEN (q + 1) * u ELSE q * u

\* the f32 result of an operation whose exact result is x
F32(x) == IF x >= 0 THEN F32Nearest(x) ELSE -F32Nearest(-x)

\* f32::max(0.0)
ClampZero(x) == IF x >= 0 THEN x ELSE 0

\* A ResourceUsage value a caller passes in (active_processes is 1 in every
\* caller of the source and is never read by the manager).
UsageArg(m, c, g) ==
    [memory_used |-> m, cpu_usage |-> c, gpu_memory_used |-> g, active_processes |-> 1]

\* The ordinary usages passed in: nothing, a little of memory and CPU, the most
\* memory, the most CPU and GPU memory, a little memory with the most GPU
\* memory.
UsageArgs ==
    {UsageArg(0, 0, 0), UsageArg(1, 1, 0), UsageArg(MaxMem, 0, 0),
     UsageArg(0, MaxCpu, MaxGpu), UsageArg(1, 0, MaxGpu)}

\* The usages passed in where the width of the numbers matters: nothing, a
\* little of memory and CPU, a CPU load at which an f32 no longer resolves the
\* little one, and the byte counts u64::MAX and 2^63.
WideArgs ==
    {UsageArg(0, 0, 0), UsageArg(1, 1, 0), UsageArg(0, 2 ^ MantissaBits, 0),
     UsageArg(U64Max, 0, 0), UsageArg(I64Max + 1, 0, 0)}

\* The ResourceLimits a manager is constructed with.
LimitChoices ==
    [max_memory : {MaxMem + 1}, max_cpu : {MaxCpu},
     max_gpu_memory : {MaxGpu}, max_processes : {1, 2}]

ZeroUsage ==
    [memory_used |-> 0, cpu_usage |-> 0, gpu_memory_used |-> 0, active_processes |-> 0]

\* HashMap::insert
MapInsert(m, id, u) == [k \in (DOMAIN m) \cup {id} |-> IF k = id THEN u ELSE m[k]]

\* HashMap::remove
MapRemove(m, id) == [k \in (DOMAIN m) \ {id} |-> m[k]]

(***************************************************************************)
(* Part I, continued.  The locks of the ResourceManager                    *)
(*                                                                         *)
(* `active_resources` and `usage` sit behind one tokio RwLock each.  Tasks *)
(* call the manager concurrently; a call is the sequence of lock           *)
(* acquisitions and releases its code makes on the path it takes.  A tokio *)
(* RwLock serves its waiters in the order they arrived: a reader is let in *)
(* when no writer holds the lock, a writer when nobody does.               *)
(***************************************************************************)

\* Bound of the model.
NumTasks == 2       \* tasks calling the manager concurrently

Tasks == 1..NumTasks

Locks == {"active_resources", "usage"}

Acq(l, m) == [a |-> "acquire", lock |-> l, mode |-> m]
Rel(l) == [a |-> "release", lock |-> l, mode |-> "none"]

\* unregister_resource taking the two locks in the other order.
UnregisterLockPathsUsageFirst ==
    {<<Acq("usage", "write"), Acq("active_resources", "write"),
       Rel("usage"), Rel("active_resources")>>}

\* register_resource: the paths through its three blocks.  Guards are dropped
\* in the reverse order of their declaration.
RegisterLockPaths ==
    {\* "Maximum number of active processes reached"
     <<Acq("active_resources", "read"), Rel("active_resources")>>,
     \* a memory or GPU memory limit error
     <<Acq("active_resources", "read"), Acq("usage", "read"),
       Rel("usage"), Rel("active_resources")>>,
     \* Ok
     <<Acq("active_resources", "read"), Acq("usage", "read"),
       Rel("usage"), Rel("active_resources"),
       Acq("active_resources", "write"), Rel("active_resources"),
       Acq("usage", "write"), Rel("usage")>>}

\* update_resource: "Resource not found", or the aggregate update (which ends
\* with Ok or with a limit error)
UpdateLockPaths ==
    {<<Acq("active_resources", "write"), Rel("active_resources")>>,
     <<Acq("active_resources", "write"), Acq("usage", "write"),
       Rel("usage"), Rel("active_resources")>>}

\* unregister_resource: "Resource not found", or Ok
UnregisterLockPaths ==
    {<<Acq("active_resources", "write"), Rel("active_resources")>>,
     <<Acq("active_resources", "write"), Acq("usage", "write"),
       Rel("usage"), Rel("active_resources")>>}

\* get_usage, is_within_limits, get_utilization read the aggregate;
\* get_resource_usage and garbage_collect read the map.
QueryLockPaths ==
    {<<Acq("usage", "read"), Rel("usage")>>,
     <<Acq("active_resources", "read"), Rel("active_resources")>>}

LockPaths == RegisterLockPaths \cup UpdateLockPaths \cup UnregisterLockPaths \cup QueryLockPaths

\* A task that is in no call.
NoCall == [path |-> <<>>, at |-> 1, waiting |-> FALSE]

\* A task that is in no register_resource call.
NoRegister == [at |-> "idle", id |-> "none", usage |-> ZeroUsage]

\* The locks as ResourceManager::new creates them.
LocksNew ==
    /\ task_call = [t \in Tasks |-> NoCall]
    /\ reg_call = [t \in Tasks |-> NoRegister]
    /\ lock_holders = [l \in Locks |-> {}]
    /\ lock_queue = [l \in Locks |-> <<>>]

InCall(t) == task_call[t].at <= Len(task_call[t].path)

NextLockStep(t) == task_call[t].path[task_call[t].at]

Holds(t, l) == \E h \in lock_holders[l] : h.task = t

\* Whether a request of mode m can be granted on lock l.
Grantable(l, m) ==
    IF m = "read"
    THEN \A h \in lock_holders[l] : h.mode = "read"
    ELSE lock_holders[l] = {}

\* A task calls an operation of the manager, which will take the path p.
BeginCall(t, p) ==
    /\ ~InCall(t)
    /\ task_call' = [task_call EXCEPT ![t] = [path |-> p, at |-> 1, waiting |-> FALSE]]
    /\ UNCHANGED <<lock_holders, lock_queue, reg_call>>
    /\ UNCHANGED <<rmVars, schedVars, backendVars>>

\* `.read().await` / `.write().await`: the task joins the lock's waiters.
RequestLock(t) ==
    /\ InCall(t)
    /\ ~task_call[t].waiting
    /\ NextLockStep(t).a = "acquire"
    /\ lock_queue' = [lock_queue EXCEPT ![NextLockStep(t).lock] =
                          Append(@, [task |-> t, mode |-> NextLockStep(t).mode])]
    /\ task_call' = [task_call EXCEPT ![t].waiting = TRUE]
    /\ UNCHANGED <<lock_holders, reg_call>>
    /\ UNCHANGED <<rmVars, schedVars, backendVars>>

\* The first waiter of lock l is given the lock.
GrantLock(l) ==
    /\ lock_queue[l] # <<>>
    /\ LET w == Head(lock_queue[l]) IN
       /\ Grantable(l, w.mode)
       /\ lock_holders' = [lock_holders EXCEPT ![l] = @ \cup {w}]
       /\ lock_queue' = [lock_queue EXCEPT ![l] = Tail(@)]
       /\ task_call' = [task_call EXCEPT ![w.task].waiting = FALSE,
                                         ![w.task].at = @ + 1]
    /\ UNCHANGED reg_call
    /\ UNCHANGED <<rmVars, schedVars, backendVars>>

\* A guard is dropped.
ReleaseLock(t) ==
    /\ InCall(t)
    /\ NextLockStep(t).a = "release"
    /\ lock_holders' = [lock_holders EXCEPT ![NextLockStep(t).lock] =
                            {h \in @ : h.task # t}]
    /\ task_call' = [task_call EXCEPT ![t].at = @ + 1]
    /\ UNCHANGED <<lock_queue, reg_call>>
    /\ UNCHANGED <<rmVars, schedVars, backendVars>>

CallRegister == \E t \in Tasks, p \in RegisterLockPaths : BeginCall(t, p)
CallUpdate == \E t \in Tasks, p \in UpdateLockPaths : BeginCall(t, p)
CallUnregister == \E t \in Tasks, p \in UnregisterLockPaths : BeginCall(t, p)
CallQuery == \E t \in Tasks, p \in QueryLockPaths : BeginCall(t, p)
Request == \E t \in Tasks : RequestLock(t)
Grant == \E l \in Locks : GrantLock(l)
Release == \E t \in Tasks : ReleaseLock(t)

\* ResourceManager::new
ResourceManagerNew ==
    /\ usage = ZeroUsage
    /\ active_resources = <<>>
    /\ total_allocated = 0
    /\ total_freed = 0
    /\ limits \in LimitChoices
    /\ overflow_checks \in BOOLEAN
    /\ rm_call = [op |-> "new", result |-> "Ok", clamped |-> FALSE]
    /\ LocksNew

\* Calls are explored while the counters that only grow are below their bounds.
WithinBounds ==
    /\ total_allocated < MaxTotal
    /\ total_freed < MaxTotal
    /\ usage.active_processes < MaxProcs
    /\ usage.cpu_usage < MaxAggCpu

\* `current + add > max` on u64 (lines 88 and 91): "panic", or whether the
\* comparison holds
ExceedsLimit(current, add, max) ==
    IF current + add > U64Max /\ overflow_checks
    THEN "panic"
    ELSE IF WrapU64(current + add) > max THEN "exceeds" ELSE "fits"

\* The validation of register_resource (lines 78-94): the error it returns,
\* "panic" when an addition overflows in a build that checks, or "Ok" when the
\* resource may be added.
RegisterCheck(active, current, u) ==
    IF Cardinality(DOMAIN active) >= limits.max_processes
    THEN "Maximum number of active processes reached"
    ELSE LET m == ExceedsLimit(current.memory_used, u.memory_used, limits.max_memory)
             g == ExceedsLimit(current.gpu_memory_used, u.gpu_memory_used,
                               limits.max_gpu_memory)
         IN  IF m = "panic" THEN "panic"
             ELSE IF m = "exceeds" THEN "Would exceed maximum memory limit"
             ELSE IF g = "panic" THEN "panic"
             ELSE IF g = "exceeds" THEN "Would exceed maximum GPU memory limit"
             ELSE "Ok"

\* The aggregate after register_resource's "Update global usage" block
\* (lines 103-109).
RegisterUsage(current, u) ==
    [memory_used |-> WrapU64(current.memory_used + u.memory_used),
     cpu_usage |-> F32(current.cpu_usage + u.cpu_usage),
     gpu_memory_used |-> WrapU64(current.gpu_memory_used + u.gpu_memory_used),
     active_processes |-> current.active_processes + 1]

\* register_resource with the insertion (lines 97-100) moved in front of the
\* validation, as update_resource has it.
RegisterResourceInsertFirst(id, u) ==
    /\ LET r == RegisterCheck(active_resources, usage, u) IN
       /\ rm_call' = [op |-> "register", result |-> r, clamped |-> FALSE]
       /\ active_resources' = MapInsert(active_resources, id, u)
       /\ IF r = "Ok"
          THEN /\ usage' = RegisterUsage(usage, u)
               /\ total_allocated' = WrapU64(total_allocated + u.memory_used)
               /\ UNCHANGED total_freed
          ELSE UNCHANGED <<usage, total_allocated, total_freed>>
    /\ UNCHANGED <<limits, overflow_checks>>
    /\ UNCHANGED <<schedVars, lockVars, backendVars>>

\* register_resource(id, u)
RegisterResource(id, u) ==
    /\ LET r == RegisterCheck(active_resources, usage, u) IN
       /\ rm_call' = [op |-> "register", result |-> r, clamped |-> FALSE]
       /\ IF r = "Ok"
          THEN /\ active_resources' = MapInsert(active_resources, id, u)
               /\ usage' = RegisterUsage(usage, u)
               /\ total_allocated' = WrapU64(total_allocated + u.memory_used)
               /\ UNCHANGED total_freed
          ELSE UNCHANGED <<usage, active_resources, total_allocated, total_freed>>
    /\ UNCHANGED <<limits, overflow_checks>>
    /\ UNCHANGED <<schedVars, lockVars, backendVars>>

\* `new as i64 - old as i64` (lines 127-128): the exact difference
I64Diff(new, old) == AsI64(new) - AsI64(old)

\* One of the two "Update global usage" branches of update_resource (lines
\* 137-147 for memory, 149-159 for GPU memory) for the i64 difference diff:
\* the result ("Ok", the error err, or "panic"), the field's new value, and
\* whether the subtraction was cut off at zero.
ApplyDiff(cur, diff, max, err) ==
    IF diff > 0
    THEN LET s == AsI64(cur) + diff IN
         IF I64Overflows(s) /\ overflow_checks
         THEN [result |-> "panic", value |-> cur, clamped |-> FALSE]
         ELSE IF AsU64(s) > max
         THEN [result |-> err, value |-> cur, clamped |-> FALSE]
         ELSE [result |-> "Ok", value |-> AsU64(s), clamped |-> FALSE]
    ELSE IF diff = I64Min /\ overflow_checks
         THEN [result |-> "panic", value |-> cur, clamped |-> FALSE]
         ELSE [result |-> "Ok", value |-> SaturatingSub(cur, AsU64(-diff)),
               clamped |-> cur < AsU64(-diff)]

\* update_resource from the computation of the differences on (lines
\* 127-163): the result the call returns, the aggregate it leaves, whether it got
\* as far as replacing the per-id entry (line 133), and whether one of its
\* subtractions was cut off at zero.  An early return or a panic keeps the
\* fields assigned before it.
UpdateUsage(current, old, new) ==
    LET md == I64Diff(new.memory_used, old.memory_used)
        gd == I64Diff(new.gpu_memory_used, old.gpu_memory_used)
        cpu_diff == F32(new.cpu_usage - old.cpu_usage)
        mem == ApplyDiff(current.memory_used, WrapI64(md), limits.max_memory,
                         "Would exceed maximum memory limit")
        gpu == ApplyDiff(current.gpu_memory_used, WrapI64(gd), limits.max_gpu_memory,
                         "Would exceed maximum GPU memory limit")
    IN  IF (I64Overflows(md) \/ I64Overflows(gd)) /\ overflow_checks
        THEN [result |-> "panic", usage |-> current, inserted |-> FALSE,
              clamped |-> FALSE]
        ELSE IF mem.result # "Ok"
        THEN [result |-> mem.result, usage |-> current, inserted |-> TRUE,
              clamped |-> FALSE]
        ELSE IF gpu.result # "Ok"
        THEN [result |-> gpu.result,
              usage |-> [current EXCEPT !.memory_used = mem.value],
              inserted |-> TRUE, clamped |-> mem.clamped]
        ELSE [result |-> "Ok",
              usage |-> [current EXCEPT
                            !.memory_used = mem.value,
                            !.gpu_memory_used = gpu.value,
                            !.cpu_usage = ClampZero(F32(current.cpu_usage + cpu_diff))],
              inserted |-> TRUE,
              clamped |-> \/ mem.clamped
                          \/ gpu.clamped
                          \/ F32(current.cpu_usage + cpu_diff) < 0]

\* The per-id map after update_resource on a registered id: the entry is
\* replaced (line 133) before the limits are looked at.
UpdateEntry(active, id, new, r) ==
    IF r.inserted THEN MapInsert(active, id, new) ELSE active

\* update_resource counting what it adds to the memory in use as allocated and
\* what it takes off as freed.
UpdateResourceCounted(id, new) ==
    /\ IF id \in DOMAIN active_resources
       THEN LET r == UpdateUsage(usage, active_resources[id], new) IN
            /\ active_resources' = UpdateEntry(active_resources, id, new, r)
            /\ usage' = r.usage
            /\ rm_call' = [op |-> "update", result |-> r.result, clamped |-> r.clamped]
            /\ total_allocated' =
                   WrapU64(total_allocated + ClampZero(r.usage.memory_used - usage.memory_used))
            /\ total_freed' =
                   WrapU64(total_freed + ClampZero(usage.memory_used - r.usage.memory_used))
       ELSE /\ UNCHANGED <<active_resources, usage, total_allocated, total_freed>>
            /\ rm_call' = [op |-> "update", result |-> "Resource not found",
                           clamped |-> FALSE]
    /\ UNCHANGED <<limits, overflow_checks>>
    /\ UNCHANGED <<schedVars, lockVars, backendVars>>

\* update_resource(id, new_usage)
UpdateResource(id, new) ==
    /\ IF id \in DOMAIN active_resources
       THEN LET r == UpdateUsage(usage, active_resources[id], new) IN
            /\ active_resources' = UpdateEntry(active_resources, id, new, r)
            /\ usage' = r.usage
            /\ rm_call' = [op |-> "update", result |-> r.result, clamped |-> r.clamped]
       ELSE /\ UNCHANGED <<active_resources, usage>>
            /\ rm_call' = [op |-> "update", result |-> "Resource not found",
                           clamped |-> FALSE]
    /\ UNCHANGED <<total_allocated, total_freed, limits, overflow_checks>>
    /\ UNCHANGED <<schedVars, lockVars, backendVars>>

\* The aggregate after unregister_resource removed the entry u (lines 174-178).
UnregisterUsage(current, u) ==
    [memory_used |-> SaturatingSub(current.memory_used, u.memory_used),
     gpu_memory_used |-> SaturatingSub(current.gpu_memory_used, u.gpu_memory_used),
     cpu_usage |-> ClampZero(F32(current.cpu_usage - u.cpu_usage)),
     active_processes |-> SaturatingSub(current.active_processes, 1)]

\* What is left of the aggregate when the entry u is taken off it exactly.
ExactDifference(current, u) ==
    [memory_used |-> current.memory_used - u.memory_used,
     gpu_memory_used |-> current.gpu_memory_used - u.gpu_memory_used,
     cpu_usage |-> F32(current.cpu_usage - u.cpu_usage),
     active_processes |-> current.active_processes - 1]

\* unregister_resource(id)
UnregisterResource(id) ==
    /\ IF id \in DOMAIN active_resources
       THEN LET u == active_resources[id] IN
            /\ active_resources' = MapRemove(active_resources, id)
            /\ usage' = UnregisterUsage(usage, u)
            /\ total_freed' = WrapU64(total_freed + u.memory_used)
            /\ rm_call' = [op |-> "unregister", result |-> "Ok",
                           clamped |-> UnregisterUsage(usage, u) # ExactDifference(usage, u)]
       ELSE /\ UNCHANGED <<active_resources, usage, total_freed>>
            /\ rm_call' = [op |-> "unregister", result |-> "Resource not found",
                           clamped |-> FALSE]
    /\ UNCHANGED <<total_allocated, limits, overflow_checks>>
    /\ UNCHANGED <<schedVars, lockVars, backendVars>>

Register ==
    WithinBounds /\ \E id \in ResourceIds, u \in UsageArgs : RegisterResource(id, u)

Update ==
    WithinBounds /\ \E id \in ResourceIds, u \in UsageArgs : UpdateResource(id, u)

Unregister ==
    WithinBounds /\ \E id \in ResourceIds : UnregisterResource(id)

RegisterWide ==
    WithinBounds /\ \E id \in ResourceIds, u \in WideArgs : RegisterResource(id, u)

UpdateWide ==
    WithinBounds /\ \E id \in ResourceIds, u \in WideArgs : UpdateResource(id, u)

\* ---- register_resource called by several tasks at once ----
\* The call takes and drops its locks block by block (lines 78-94, 97-100,
\* 103-109) and ends with an atomic fetch_add (line 111).  What a block does
\* under its locks is one step; between two blocks of one call the other tasks
\* run.

RegisterFrame ==
    /\ UNCHANGED <<limits, overflow_checks, task_call, lock_holders, lock_queue>>
    /\ UNCHANGED <<schedVars, backendVars>>

\* register_resource(id, u), first block (lines 78-94): the validation, under
\* the read locks of the map and of the aggregate.  An error (or a panic) ends
\* the call.
RegisterValidate(t, id, u) ==
    /\ reg_call[t].at = "idle"
    /\ LET r == RegisterCheck(active_resources, usage, u) IN
       IF r = "Ok"
       THEN /\ reg_call' = [reg_call EXCEPT ![t] = [at |-> "validated", id |-> id,
                                                     usage |-> u]]
            /\ UNCHANGED rm_call
       ELSE /\ rm_call' = [op |-> "register", result |-> r, clamped |-> FALSE]
            /\ UNCHANGED reg_call
    /\ UNCHANGED <<usage, active_resources, total_allocated, total_freed>>
    /\ RegisterFrame

\* second block (lines 97-100): the insertion, under the map's write lock
RegisterInsert(t) ==
    /\ reg_call[t].at = "validated"
    /\ active_resources' = MapInsert(active_resources, reg_call[t].id, reg_call[t].usage)
    /\ reg_call' = [reg_call EXCEPT ![t].at = "inserted"]
    /\ UNCHANGED <<usage, total_allocated, total_freed, rm_call>>
    /\ RegisterFrame

\* third block (lines 103-109): the aggregate, under its write lock
RegisterAccount(t) ==
    /\ reg_call[t].at = "inserted"
    /\ usage' = RegisterUsage(usage, reg_call[t].usage)
    /\ reg_call' = [reg_call EXCEPT ![t].at = "accounted"]
    /\ UNCHANGED <<active_resources, total_allocated, total_freed, rm_call>>
    /\ RegisterFrame

\* total_allocated.fetch_add (line 111), and the return of Ok (line 120)
RegisterReturn(t) ==
    /\ reg_call[t].at = "accounted"
    /\ total_allocated' = WrapU64(total_allocated + reg_call[t].usage.memory_used)
    /\ rm_call' = [op |-> "register", result |-> "Ok", clamped |-> FALSE]
    /\ reg_call' = [reg_call EXCEPT ![t] = NoRegister]
    /\ UNCHANGED <<usage, active_resources, total_freed>>
    /\ RegisterFrame

Validate ==
    WithinBounds /\ \E t \in Tasks, id \in ResourceIds, u \in UsageArgs :
                       RegisterValidate(t, id, u)

Insert == \E t \in Tasks : RegisterInsert(t)

Account == \E t \in Tasks : RegisterAccount(t)

Return == \E t \in Tasks : RegisterReturn(t)

(***************************************************************************)
(* Part II.  WallpaperScheduler, the backends and the UI's apply/stop      *)
(*                                                                         *)
(* Time is the wall clock in seconds.  The calendar is scaled down: a day  *)
(* has HoursPerDay hours of MinutesPerHour minutes, a minute has 60        *)
(* seconds, and the clock moves in steps of ClockStep seconds.  The wall   *)
(* clock can be set back (an NTP step, a change of the system time) while  *)
(* thread::sleep measures real time.  The outcome of every external        *)
(* command (a helper tool's exit status) is chosen by the environment.     *)
(***************************************************************************)

CheckIntervalSecs == 60     \* check_interval: StdDuration::from_secs(60)
OneMinuteSecs == 60         \* chrono::Duration::minutes(1)

\* Bounds of the model.
MinutesPerHour == 2
HoursPerDay == 2
ClockStep == 30             \* granularity of the clock, in seconds
MaxTime == 330              \* the clock is followed up to this time (SpecClock)
MaxSkew == 60               \* the wall clock is set back by at most this in all
ShortTime == 120            \* ... and up to this time where the UI acts too (SpecSched)
MaxItems == 2               \* longest schedule
MaxEdits == 1               \* schedule mutations made by the UI
MaxBackends == 3            \* backend objects alive at one time

\* chrono: the minute count since the epoch, and Timelike::minute / hour
AbsMinute(t) == t \div OneMinuteSecs
MinuteOf(t) == AbsMinute(t) % MinutesPerHour
HourOf(t) == (AbsMinute(t) \div MinutesPerHour) % HoursPerDay
DayOf(t) == AbsMinute(t) \div (MinutesPerHour * HoursPerDay)

\* TriggerType
TimeTrigger(h, m) == [kind |-> "Time", hour |-> h, minute |-> m, every |-> 0]
IntervalTrigger(d) == [kind |-> "Interval", hour |-> 0, minute |-> 0, every |-> d]
SystemEventTrigger == [kind |-> "SystemEvent", hour |-> 0, minute |-> 0, every |-> 0]
CustomTrigger == [kind |-> "Custom", hour |-> 0, minute |-> 0, every |-> 0]

\* Interval durations: a minute, and longer than the time the model follows.
ShortInterval == OneMinuteSecs
LongInterval == MaxTime + OneMinuteSecs

\* WallpaperInfo: the type, whether `path` is set ("none" when it is not) and
\* whether the file it names exists, and whether `url` is set.
WallpaperInfo(t, p, u) == [type |-> t, path |-> p, url |-> u]

StaticInfo == WallpaperInfo("Static", "exists", "none")
VideoInfo == WallpaperInfo("Video", "exists", "none")
VideoMissingInfo == WallpaperInfo("Video", "missing", "none")
WebInfo == WallpaperInfo("Web", "none", "set")
ShaderNoPathInfo == WallpaperInfo("Shader", "none", "none")

\* The wallpapers the UI can select and apply.
UISelections == {StaticInfo, ShaderNoPathInfo}

ScheduleItem(tr, w, e) == [trigger |-> tr, wallpaper |-> w, enabled |-> e]

\* The schedule items the UI adds or writes over existing ones.
ItemChoices ==
    {ScheduleItem(TimeTrigger(0, 1), StaticInfo, TRUE),
     ScheduleItem(TimeTrigger(0, 1), VideoMissingInfo, TRUE),
     ScheduleItem(IntervalTrigger(ShortInterval), VideoInfo, TRUE),
     ScheduleItem(TimeTrigger(1, 0), ShaderNoPathInfo, FALSE)}

\* What the schedule file holds when load_schedule reads it: a list of items,
\* or no file, or text that does not parse.
StoredSchedules ==
    {<<ScheduleItem(IntervalTrigger(LongInterval), VideoInfo, TRUE),
       ScheduleItem(TimeTrigger(0, 1), StaticInfo, TRUE)>>,
     <<ScheduleItem(TimeTrigger(0, 1), StaticInfo, TRUE),
       ScheduleItem(TimeTrigger(0, 1), VideoMissingInfo, TRUE)>>,
     <<ScheduleItem(SystemEventTrigger, StaticInfo, TRUE),
       ScheduleItem(CustomTrigger, StaticInfo, TRUE)>>}

\* The schedule file: whether it is there and can be read and parsed, the list
\* it holds when it parses, and whether it can be written.
Store(k, items, w) == [kind |-> k, items |-> items, writable |-> w]

StoreStates ==
    {Store("parses", items, TRUE) : items \in StoredSchedules}
        \cup {Store("missing", <<>>, w) : w \in BOOLEAN}
        \cup {Store("malformed", <<>>, TRUE), Store("unreadable", <<>>, FALSE)}

\* A stored schedule whose items the user has switched off.
PausedSchedule ==
    <<ScheduleItem(IntervalTrigger(ShortInterval), StaticInfo, FALSE),
      ScheduleItem(TimeTrigger(0, 1), VideoInfo, FALSE)>>

\* The file of an application whose schedule is not looked at.
NoStore == Store("missing", <<>>, TRUE)

\* create_default_schedule: "Morning" at 08:00 and "Evening" at 18:00
DefaultSchedule ==
    <<ScheduleItem(TimeTrigger(8, 0), StaticInfo, TRUE),
      ScheduleItem(TimeTrigger(18, 0), StaticInfo, TRUE)>>

\* A backend object (Box<dyn Wallpaper>): its identity, its type and whether
\* its asset file exists.  NoBackend is the empty slot (None).
Backend(i, w) == [id |-> i, type |-> w.type, path |-> w.path]
NoBackend == [id |-> 0, type |-> "None", path |-> "none"]

NoApply == [before |-> NoBackend, stop |-> "none", start |-> "none", new |-> NoBackend]
NoPass == [before |-> NoBackend, start_failed |-> FALSE, done |-> FALSE]
NoTick == [t |-> -1, since |-> -1, pass |-> FALSE]
NoPrevTick == [t |-> -1, pass |-> FALSE]

\* WallpaperScheduler::new at wall-clock time t, in an application that has
\* applied nothing yet.
WallpaperSchedulerNew(t, h) ==
    /\ horizon = h
    /\ now = t
    /\ skew = 0
    /\ is_running = FALSE
    /\ scheduler_thread = "None"
    /\ last_check = t
    /\ schedule_items = <<>>
    /\ current_wallpaper = NoBackend
    /\ pc = "none"
    /\ live_loops = 0
    /\ loop_now = t
    /\ idx = 1
    /\ wake_at = t
    /\ ui_current_wallpaper = NoBackend
    /\ owner_pc = "idle"
    /\ edits = 0
    /\ loaded = FALSE
    /\ load_result = "none"
    /\ edit_result = "none"
    /\ started = {}
    /\ apply_rec = NoApply
    /\ pass_rec = NoPass
    /\ last_tick = NoTick
    /\ prev_tick = NoPrevTick
    /\ time_fires = {}

\* ---- the backends ----

\* What stop() can return: VideoWallpaper::stop always returns Ok; the other
\* backends return the platform manager's stop_wallpaper result.
StopOutcomes(b) == IF b.type = "Video" THEN {"Ok"} ELSE {"Ok", "Err"}

\* What start() can return: VideoWallpaper::start fails when its file does not
\* exist; otherwise the helper tool decides.
StartOutcomes(b) ==
    IF b.type = "Video" /\ b.path = "missing" THEN {"Err"} ELSE {"Ok", "Err"}

\* The active backends (started and not yet stopped) after stop() / start()
\* returned r.  stop() is best-effort: once it has returned, with or without
\* an error, the backend counts as stopped.
StartedAfterStop(b, r) == started \ {b.id}
StartedAfterStart(S, b, r) == IF r = "Ok" THEN S \cup {b.id} ELSE S

\* Whether the field the type needs is present (the `if let Some(..)` of the
\* constructor match, lines 301-342).
HasTarget(w) == IF w.type = "Web" THEN w.url # "none" ELSE w.path # "none"

\* Backend objects that something still refers to.
InUse ==
    {current_wallpaper.id, ui_current_wallpaper.id, apply_rec.before.id,
     apply_rec.new.id, pass_rec.before.id} \cup started

CanConstruct == \E i \in 1..MaxBackends : i \notin InUse
FreshId == CHOOSE i \in 1..MaxBackends : i \notin InUse /\ \A j \in 1..(i - 1) : j \in InUse

\* ---- the clock ----

Advance ==
    /\ now + ClockStep <= horizon
    /\ now' = now + ClockStep
    /\ UNCHANGED <<is_running, scheduler_thread, last_check, schedule_items,
                   current_wallpaper, pc, loop_now, idx, wake_at, ui_current_wallpaper,
                   owner_pc, edits, started, apply_rec, pass_rec, last_tick, prev_tick,
                   time_fires>>
    /\ UNCHANGED <<rmVars, lockVars, backendVars, edit_result, horizon, loaded, skew, live_loops, load_result, store>>

\* The system time is set back by k seconds.  Local::now() follows it; a
\* thread::sleep under way still lasts as long as it was going to.
ClockSetBack ==
    /\ \E k \in {ClockStep, OneMinuteSecs} :
           /\ k <= now
           /\ skew + k <= MaxSkew
           /\ now' = now - k
           /\ skew' = skew + k
           /\ wake_at' = IF pc = "sleep" THEN wake_at - k ELSE wake_at
    /\ UNCHANGED <<is_running, scheduler_thread, last_check, schedule_items,
                   current_wallpaper, pc, loop_now, idx, ui_current_wallpaper,
                   owner_pc, edits, started, apply_rec, pass_rec, last_tick, prev_tick,
                   time_fires>>
    /\ UNCHANGED <<rmVars, lockVars, backendVars, edit_result, horizon, loaded, live_loops, load_result, store>>

\* ---- WallpaperScheduler::start / stop, called by the owner ----

\* start() without its "already running" return (lines 160-164).
SchedulerStartSpawnsAlways ==
    /\ owner_pc = "idle"
    /\ is_running' = TRUE
    /\ scheduler_thread' = "Some"
    /\ pc' = "loop"
    /\ live_loops' = live_loops + 1
    /\ UNCHANGED <<now, last_check, schedule_items, current_wallpaper, loop_now, idx,
                   wake_at, ui_current_wallpaper, owner_pc, edits, started, apply_rec,
                   pass_rec, last_tick, prev_tick, time_fires>>
    /\ UNCHANGED <<rmVars, lockVars, backendVars, edit_result, horizon, loaded, skew, load_result, store>>

SchedulerStart ==
    /\ owner_pc = "idle"
    /\ IF is_running
       THEN UNCHANGED <<is_running, scheduler_thread, pc, live_loops>>
       ELSE /\ is_running' = TRUE
            /\ scheduler_thread' = "Some"
            /\ pc' = "loop"
            /\ live_loops' = live_loops + 1
    /\ UNCHANGED <<now, last_check, schedule_items, current_wallpaper, loop_now, idx,
                   wake_at, ui_current_wallpaper, owner_pc, edits, started, apply_rec,
                   pass_rec, last_tick, prev_tick, time_fires>>
    /\ UNCHANGED <<rmVars, lockVars, backendVars, edit_result, horizon, loaded, skew, load_result, store>>

\* stop() up to thread.join()
SchedulerStop ==
    /\ owner_pc = "idle"
    /\ IF ~is_running
       THEN UNCHANGED <<is_running, scheduler_thread, owner_pc>>
       ELSE /\ is_running' = FALSE
            /\ scheduler_thread' = "None"
            /\ owner_pc' = IF scheduler_thread = "Some" THEN "joining" ELSE "idle"
    /\ UNCHANGED <<now, last_check, schedule_items, current_wallpaper, pc, loop_now, idx,
                   wake_at, ui_current_wallpaper, edits, started, apply_rec, pass_rec,
                   last_tick, prev_tick, time_fires>>
    /\ UNCHANGED <<rmVars, lockVars, backendVars, edit_result, horizon, loaded, skew, live_loops, load_result, store>>

\* thread.join() returns once the thread has left its loop
JoinReturns ==
    /\ owner_pc = "joining"
    /\ pc = "none"
    /\ owner_pc' = "idle"
    /\ UNCHANGED <<now, is_running, scheduler_thread, last_check, schedule_items,
                   current_wallpaper, pc, loop_now, idx, wake_at, ui_current_wallpaper,
                   edits, started, apply_rec, pass_rec, last_tick, prev_tick, time_fires>>
    /\ UNCHANGED <<rmVars, lockVars, backendVars, edit_result, horizon, loaded, skew, live_loops, load_result, store>>

\* ---- the background loop (lines 174-222) ----

\* The loop as `loop { ... }`: is_running is not looked at.
LoopCheckIgnoresFlag ==
    /\ pc = "loop"
    /\ pc' = "sleep"
    /\ wake_at' = now + CheckIntervalSecs
    /\ UNCHANGED <<now, is_running, scheduler_thread, schedule_items, current_wallpaper,
                   ui_current_wallpaper, owner_pc, edits, started, apply_rec, time_fires,
                   loop_now, last_check, idx, pass_rec, last_tick, prev_tick>>
    /\ UNCHANGED <<rmVars, lockVars, backendVars, edit_result, horizon, loaded, skew, live_loops, load_result, store>>

\* A pass on every tick.
MinuteElapsedAlways(n, lc) == n - lc >= 0

\* "Check if a minute has passed" (line 182)
MinuteElapsed(n, lc) == n - lc >= OneMinuteSecs

\* The top of the loop: leave when is_running is false; otherwise read the
\* clock and either begin an evaluation pass or go to sleep.
LoopCheck ==
    /\ pc = "loop"
    /\ IF ~is_running
       THEN /\ pc' = "none"
            /\ live_loops' = live_loops - 1
            /\ UNCHANGED <<loop_now, last_check, idx, wake_at, pass_rec, last_tick,
                           prev_tick>>
       ELSE /\ loop_now' = now
            /\ UNCHANGED live_loops
            /\ prev_tick' = [t |-> last_tick.t, pass |-> last_tick.pass]
            /\ last_tick' = [t |-> now, since |-> last_check,
                             pass |-> MinuteElapsed(now, last_check)]
            /\ IF MinuteElapsed(now, last_check)
               THEN /\ last_check' = now
                    /\ idx' = 1
                    /\ pc' = "pass"
                    /\ pass_rec' = [before |-> current_wallpaper,
                                    start_failed |-> FALSE, done |-> FALSE]
                    /\ UNCHANGED wake_at
               ELSE /\ pc' = "sleep"
                    /\ wake_at' = now + CheckIntervalSecs
                    /\ UNCHANGED <<last_check, idx, pass_rec>>
    /\ UNCHANGED <<now, is_running, scheduler_thread, schedule_items, current_wallpaper,
                   ui_current_wallpaper, owner_pc, edits, started, apply_rec, time_fires>>
    /\ UNCHANGED <<rmVars, lockVars, backendVars, edit_result, horizon, loaded, skew, load_result, store>>

\* An Interval trigger that fires once its duration has gone by.
TriggerFiresIntervalElapsed(tr, t) ==
    CASE tr.kind = "Time" -> HourOf(t) = tr.hour /\ MinuteOf(t) = tr.minute
      [] tr.kind = "Interval" -> t >= tr.every
      [] OTHER -> FALSE

\* SystemEvent and Custom triggers treated like Interval triggers.
TriggerFiresUnlessTime(tr, t) ==
    CASE tr.kind = "Time" -> HourOf(t) = tr.hour /\ MinuteOf(t) = tr.minute
      [] OTHER -> TRUE

\* A Time trigger compared by its hour only.
TriggerFiresHourOnly(tr, t) ==
    CASE tr.kind = "Time" -> HourOf(t) = tr.hour
      [] tr.kind = "Interval" -> TRUE
      [] OTHER -> FALSE

\* Whether an enabled item's trigger calls apply_wallpaper in a pass whose
\* `now` is t (the match of lines 192-216).
TriggerFires(tr, t) ==
    CASE tr.kind = "Time" -> HourOf(t) = tr.hour /\ MinuteOf(t) = tr.minute
      [] tr.kind = "Interval" -> TRUE
      [] OTHER -> FALSE

\* The pass without the `if !item.enabled { continue; }` of lines 188-190.
PassItemIgnoresEnabled ==
    /\ pc = "pass"
    /\ IF idx > Len(schedule_items)
       THEN /\ pc' = "sleep"
            /\ wake_at' = now + CheckIntervalSecs
            /\ pass_rec' = [pass_rec EXCEPT !.done = TRUE]
            /\ idx' = 1
            /\ UNCHANGED <<apply_rec, time_fires>>
       ELSE LET item == schedule_items[idx] IN
            IF TriggerFires(item.trigger, loop_now)
            THEN /\ pc' = "stop_old"
                 /\ apply_rec' = [before |-> current_wallpaper, stop |-> "pending",
                                  start |-> "pending", new |-> NoBackend]
                 /\ time_fires' =
                        IF item.trigger.kind = "Time"
                        THEN time_fires \cup
                                 {[minute |-> AbsMinute(loop_now), idx |-> idx,
                                   trigger |-> item.trigger]}
                        ELSE time_fires
                 /\ UNCHANGED <<idx, wake_at, pass_rec>>
            ELSE /\ idx' = idx + 1
                 /\ UNCHANGED <<pc, wake_at, pass_rec, apply_rec, time_fires>>
    /\ UNCHANGED <<now, is_running, scheduler_thread, last_check, schedule_items,
                   current_wallpaper, loop_now, ui_current_wallpaper, owner_pc, edits,
                   started, last_tick, prev_tick>>
    /\ UNCHANGED <<rmVars, lockVars, backendVars, edit_result, horizon, loaded, skew, live_loops, load_result, store>>

\* One iteration of `for item in items.iter()`, up to the call of
\* apply_wallpaper; after the last item the thread goes to sleep.
PassItem ==
    /\ pc = "pass"
    /\ IF idx > Len(schedule_items)
       THEN /\ pc' = "sleep"
            /\ wake_at' = now + CheckIntervalSecs
            /\ pass_rec' = [pass_rec EXCEPT !.done = TRUE]
            /\ idx' = 1
            /\ UNCHANGED <<apply_rec, time_fires>>
       ELSE LET item == schedule_items[idx] IN
            IF item.enabled /\ TriggerFires(item.trigger, loop_now)
            THEN /\ pc' = "stop_old"
                 /\ apply_rec' = [before |-> current_wallpaper, stop |-> "pending",
                                  start |-> "pending", new |-> NoBackend]
                 /\ time_fires' =
                        IF item.trigger.kind = "Time"
                        THEN time_fires \cup
                                 {[minute |-> AbsMinute(loop_now), idx |-> idx,
                                   trigger |-> item.trigger]}
                        ELSE time_fires
                 /\ UNCHANGED <<idx, wake_at, pass_rec>>
            ELSE /\ idx' = idx + 1
                 /\ UNCHANGED <<pc, wake_at, pass_rec, apply_rec, time_fires>>
    /\ UNCHANGED <<now, is_running, scheduler_thread, last_check, schedule_items,
                   current_wallpaper, loop_now, ui_current_wallpaper, owner_pc, edits,
                   started, last_tick, prev_tick>>
    /\ UNCHANGED <<rmVars, lockVars, backendVars, edit_result, horizon, loaded, skew, live_loops, load_result, store>>

\* thread::sleep(check_interval) returns, no earlier than wake_at
Wake ==
    /\ pc = "sleep"
    /\ now >= wake_at
    /\ pc' = "loop"
    /\ apply_rec' = NoApply
    /\ pass_rec' = NoPass
    /\ UNCHANGED <<now, is_running, scheduler_thread, last_check, schedule_items,
                   current_wallpaper, loop_now, idx, wake_at, ui_current_wallpaper,
                   owner_pc, edits, started, last_tick, prev_tick, time_fires>>
    /\ UNCHANGED <<rmVars, lockVars, backendVars, edit_result, horizon, loaded, skew, live_loops, load_result, store>>

\* thread::sleep(check_interval) returns where the modelled time ends: the
\* clock is followed up to the horizon only, the sleep lasts 60 seconds
\* whatever the model knows of the time.
SleepReturnsAtHorizon ==
    /\ pc = "sleep"
    /\ now < wake_at
    /\ now + ClockStep > horizon
    /\ pc' = "loop"
    /\ apply_rec' = NoApply
    /\ pass_rec' = NoPass
    /\ UNCHANGED <<now, is_running, scheduler_thread, last_check, schedule_items,
                   current_wallpaper, loop_now, idx, wake_at, ui_current_wallpaper,
                   owner_pc, edits, started, last_tick, prev_tick, time_fires>>
    /\ UNCHANGED <<rmVars, lockVars, backendVars, edit_result, horizon, loaded, skew, live_loops, load_result, store>>

\* ---- WallpaperScheduler::apply_wallpaper (lines 287-352) ----

\* The slot emptied when stop() fails.
SlotAfterStopClearsOnError(slot, r) == IF r = "Err" THEN NoBackend ELSE slot

\* The slot after the old backend's stop() returned r (lines 292-298): the
\* error is logged and the slot is left alone.
SlotAfterStop(slot, r) == slot

\* apply_wallpaper going on to the new backend without stopping the old one.
ApplyStopOldSkipsStop ==
    /\ pc = "stop_old"
    /\ pc' = "start_new"
    /\ UNCHANGED <<started, apply_rec, current_wallpaper>>
    /\ UNCHANGED <<now, is_running, scheduler_thread, last_check, schedule_items,
                   loop_now, idx, wake_at, ui_current_wallpaper, owner_pc, edits,
                   pass_rec, last_tick, prev_tick, time_fires>>
    /\ UNCHANGED <<rmVars, lockVars, backendVars, edit_result, horizon, loaded, skew, live_loops, load_result, store>>

\* "Stop current wallpaper if any"
ApplyStopOld ==
    /\ pc = "stop_old"
    /\ pc' = "start_new"
    /\ IF current_wallpaper # NoBackend
       THEN \E r \in StopOutcomes(current_wallpaper) :
                /\ started' = StartedAfterStop(current_wallpaper, r)
                /\ apply_rec' = [apply_rec EXCEPT !.stop = r]
                /\ current_wallpaper' = SlotAfterStop(current_wallpaper, r)
       ELSE /\ apply_rec' = [apply_rec EXCEPT !.stop = "none"]
            /\ UNCHANGED <<started, current_wallpaper>>
    /\ UNCHANGED <<now, is_running, scheduler_thread, last_check, schedule_items,
                   loop_now, idx, wake_at, ui_current_wallpaper, owner_pc, edits,
                   pass_rec, last_tick, prev_tick, time_fires>>
    /\ UNCHANGED <<rmVars, lockVars, backendVars, edit_result, horizon, loaded, skew, live_loops, load_result, store>>

\* The slot emptied when start() fails.
SlotAfterStartClearsOnError(slot, b, r) == IF r = "Ok" THEN b ELSE NoBackend

\* The slot after the new backend b's start() returned r (lines 344-350).
SlotAfterStart(slot, b, r) == IF r = "Ok" THEN b ELSE slot

\* A mutant of ApplyStartNew: a start() that fails ends the evaluation pass.
ApplyStartNewAbortsPass ==
    /\ pc = "start_new"
    /\ idx' = idx + 1
    /\ LET w == schedule_items[idx].wallpaper IN
       IF ~HasTarget(w)
       THEN /\ apply_rec' = [apply_rec EXCEPT !.start = "NoTarget"]
            /\ pc' = "pass"
            /\ UNCHANGED <<started, current_wallpaper, pass_rec>>
       ELSE /\ CanConstruct
            /\ LET b == Backend(FreshId, w) IN
               \E r \in StartOutcomes(b) :
                   /\ pc' = IF r = "Err" THEN "sleep" ELSE "pass"
                   /\ started' = StartedAfterStart(started, b, r)
                   /\ current_wallpaper' = SlotAfterStart(current_wallpaper, b, r)
                   /\ apply_rec' = [apply_rec EXCEPT !.start = r, !.new = b]
                   /\ pass_rec' = [pass_rec EXCEPT
                                      !.start_failed = pass_rec.start_failed \/ r = "Err"]
    /\ UNCHANGED <<now, is_running, scheduler_thread, last_check, schedule_items,
                   loop_now, wake_at, ui_current_wallpaper, owner_pc, edits,
                   last_tick, prev_tick, time_fires>>
    /\ UNCHANGED <<rmVars, lockVars, backendVars, edit_result, horizon, loaded, skew, live_loops, load_result, store>>

\* "Create and start new wallpaper", up to the end of apply_wallpaper
ApplyStartNew ==
    /\ pc = "start_new"
    /\ pc' = "pass"
    /\ idx' = idx + 1
    /\ LET w == schedule_items[idx].wallpaper IN
       IF ~HasTarget(w)
       THEN /\ apply_rec' = [apply_rec EXCEPT !.start = "NoTarget"]
            /\ UNCHANGED <<started, current_wallpaper, pass_rec>>
       ELSE /\ CanConstruct
            /\ LET b == Backend(FreshId, w) IN
               \E r \in StartOutcomes(b) :
                   /\ started' = StartedAfterStart(started, b, r)
                   /\ current_wallpaper' = SlotAfterStart(current_wallpaper, b, r)
                   /\ apply_rec' = [apply_rec EXCEPT !.start = r, !.new = b]
                   /\ pass_rec' = [pass_rec EXCEPT
                                      !.start_failed = pass_rec.start_failed \/ r = "Err"]
    /\ UNCHANGED <<now, is_running, scheduler_thread, last_check, schedule_items,
                   loop_now, wake_at, ui_current_wallpaper, owner_pc, edits,
                   last_tick, prev_tick, time_fires>>
    /\ UNCHANGED <<rmVars, lockVars, backendVars, edit_result, horizon, loaded, skew, live_loops, load_result, store>>

\* ---- load_schedule (lines 77-97), called once by AetherDeskApp::new ----
\* ---- before it starts the scheduler                                  ----

\* What load_schedule returns when the store is in state st: creating the
\* default schedule fails when the file cannot be written, reading fails when
\* the file cannot be read, parsing fails when its text is no list of items.
LoadResult(st) ==
    CASE st.kind = "missing" -> IF st.writable THEN "Ok" ELSE "ConfigError"
      [] st.kind \in {"unreadable", "malformed"} -> "ConfigError"
      [] OTHER -> "Ok"

\* The list load_schedule leaves in schedule_items when the store is in state
\* st: the default schedule when there was no file and one has been written,
\* the stored list when the file parses, and the list as it was when the call
\* fails.
LoadedItems(items, st) ==
    IF LoadResult(st) # "Ok" THEN items
    ELSE IF st.kind = "missing" THEN DefaultSchedule
    ELSE st.items

\* The stores from which load_schedule gets a schedule.  From the others it
\* leaves the list empty, as if it had not been called.
LoadableStores == {st \in StoreStates : LoadResult(st) = "Ok"}

\* The store after load_schedule: create_default_schedule writes the file.
StoreAfterLoad(st) ==
    IF st.kind = "missing" /\ st.writable
    THEN Store("parses", DefaultSchedule, st.writable)
    ELSE st

LoadSchedule(st) ==
    /\ owner_pc = "idle"
    /\ ~loaded
    /\ ~is_running
    /\ loaded' = TRUE
    /\ load_result' = LoadResult(st)
    /\ schedule_items' = LoadedItems(schedule_items, st)
    /\ store' = StoreAfterLoad(st)
    /\ UNCHANGED <<now, is_running, scheduler_thread, last_check, current_wallpaper, pc,
                   loop_now, idx, wake_at, ui_current_wallpaper, owner_pc, edits, started,
                   apply_rec, pass_rec, last_tick, prev_tick, time_fires>>
    /\ UNCHANGED <<rmVars, lockVars, backendVars, edit_result, horizon, skew, live_loops>>

\* save_schedule (lines 100-112): the file holds the list, unless it cannot be
\* written.
SaveSchedule(st, items) ==
    IF st.writable THEN Store("parses", items, st.writable) ELSE st

\* ---- the schedule list, mutated by the UI (lines 249-278) ----

\* The thread holds the schedule_items lock for the whole pass.
ScheduleLockFree == pc \notin {"pass", "stop_old", "start_new"}

CanEdit == owner_pc = "idle" /\ ScheduleLockFree /\ edits < MaxEdits

\* A Vec::remove that takes away the item ahead of the one asked for.
VecRemoveOffByOne(v, index) == [k \in 1..(Len(v) - 1) |-> IF k < index THEN v[k] ELSE v[k + 1]]

\* Vec::remove(index), index counted from 0
VecRemove(v, index) == [k \in 1..(Len(v) - 1) |-> IF k <= index THEN v[k] ELSE v[k + 1]]

AddScheduleItem(item) ==
    /\ CanEdit
    /\ Len(schedule_items) < MaxItems
    /\ schedule_items' = Append(schedule_items, item)
    /\ edit_result' = "Ok"
    /\ edits' = edits + 1
    /\ UNCHANGED <<now, is_running, scheduler_thread, last_check, current_wallpaper, pc,
                   loop_now, idx, wake_at, ui_current_wallpaper, owner_pc, started,
                   apply_rec, pass_rec, last_tick, prev_tick, time_fires>>
    /\ UNCHANGED <<rmVars, lockVars, backendVars, horizon, loaded, skew, live_loops, load_result>>

RemoveScheduleItem(index) ==
    /\ CanEdit
    /\ schedule_items' = IF index < Len(schedule_items)
                         THEN VecRemove(schedule_items, index)
                         ELSE schedule_items
    /\ edit_result' = IF index < Len(schedule_items) THEN "Ok" ELSE "Other"
    /\ edits' = edits + 1
    /\ UNCHANGED <<now, is_running, scheduler_thread, last_check, current_wallpaper, pc,
                   loop_now, idx, wake_at, ui_current_wallpaper, owner_pc, started,
                   apply_rec, pass_rec, last_tick, prev_tick, time_fires>>
    /\ UNCHANGED <<rmVars, lockVars, backendVars, horizon, loaded, skew, live_loops, load_result>>

UpdateScheduleItem(index, item) ==
    /\ CanEdit
    /\ schedule_items' = IF index < Len(schedule_items)
                         THEN [schedule_items EXCEPT ![index + 1] = item]
                         ELSE schedule_items
    /\ edit_result' = IF index < Len(schedule_items) THEN "Ok" ELSE "Other"
    /\ edits' = edits + 1
    /\ UNCHANGED <<now, is_running, scheduler_thread, last_check, current_wallpaper, pc,
                   loop_now, idx, wake_at, ui_current_wallpaper, owner_pc, started,
                   apply_rec, pass_rec, last_tick, prev_tick, time_fires>>
    /\ UNCHANGED <<rmVars, lockVars, backendVars, horizon, loaded, skew, live_loops, load_result>>

\* ---- AetherDeskApp::apply_wallpaper / stop_wallpaper (app.rs 987-1065) ----

\* Apply the selected wallpaper w: stop the UI's current backend if any, then
\* construct the new one, start it and keep it in the UI's slot.
UIApplyWallpaper(w) ==
    /\ owner_pc = "idle"
    /\ \E rs \in (IF ui_current_wallpaper # NoBackend
                  THEN StopOutcomes(ui_current_wallpaper) ELSE {"none"}) :
         LET afterStop == IF ui_current_wallpaper # NoBackend
                          THEN StartedAfterStop(ui_current_wallpaper, rs)
                          ELSE started
         IN  IF ~HasTarget(w)
             THEN /\ started' = afterStop
                  /\ UNCHANGED ui_current_wallpaper
             ELSE /\ CanConstruct
                  /\ LET b == Backend(FreshId, w) IN
                     \E r \in StartOutcomes(b) :
                         /\ started' = StartedAfterStart(afterStop, b, r)
                         /\ ui_current_wallpaper' =
                                IF r = "Ok" THEN b ELSE ui_current_wallpaper
    /\ UNCHANGED <<now, is_running, scheduler_thread, last_check, schedule_items,
                   current_wallpaper, pc, loop_now, idx, wake_at, owner_pc, edits,
                   apply_rec, pass_rec, last_tick, prev_tick, time_fires>>
    /\ UNCHANGED <<rmVars, lockVars, backendVars, edit_result, horizon, loaded, skew, live_loops, load_result, store>>

\* Stop the current wallpaper: the UI's slot is emptied only when stop() succeeds.
UIStopWallpaper ==
    /\ owner_pc = "idle"
    /\ ui_current_wallpaper # NoBackend
    /\ \E r \in StopOutcomes(ui_current_wallpaper) :
           /\ started' = StartedAfterStop(ui_current_wallpaper, r)
           /\ ui_current_wallpaper' = IF r = "Ok" THEN NoBackend ELSE ui_current_wallpaper
    /\ UNCHANGED <<now, is_running, scheduler_thread, last_check, schedule_items,
                   current_wallpaper, pc, loop_now, idx, wake_at, owner_pc, edits,
                   apply_rec, pass_rec, last_tick, prev_tick, time_fires>>
    /\ UNCHANGED <<rmVars, lockVars, backendVars, edit_result, horizon, loaded, skew, live_loops, load_result, store>>

(***************************************************************************)
(* Part III.  One wallpaper backend and the platform manager behind it     *)
(*                                                                         *)
(* The build is the Linux one (cfg(target_os = "linux")).  Every external  *)
(* command is answered by the environment: it exits zero, exits non-zero,  *)
(* or cannot be executed at all because the binary is absent.  The calls   *)
(* on one backend object come from one thread, one after the other         *)
(* (rt.block_on in the scheduler and in the UI).                           *)
(***************************************************************************)

\* ---- bounds ----
MaxMonitors == 1    \* most monitors `hyprctl monitors` reports
MaxChildren == 3    \* most mpv processes a backend spawns in one run
HelperPids == {11, 12}      \* PIDs that pgrep can report

ToolOutcomes == {"zero", "nonzero", "absent"}

\* The environment's answers to the commands of one manager call, in the order
\* the call would run them.
ToolAnswers == [1..(MaxMonitors + 2) -> ToolOutcomes]

Platforms == {"linux", "hyprland"}

\* An error text: the fixed message, and the tool whose diagnostic (its stderr,
\* or the io::Error of its spawn) the text carries: "none" when it carries none.
ErrorText(m, d) == [msg |-> m, diag |-> d]
NoText == ErrorText("", "none")

Invoked(t, o) == [tool |-> t, outcome |-> o]

\* What a manager call returns and does: the commands it ran with their
\* outcomes, and the value it leaves in current_wallpaper.
ManagerResult(r, k, t, inv, cur) ==
    [result |-> r, kind |-> k, text |-> t, invoked |-> inv, current |-> cur]

\* The first command of the chain that exits zero: 0 when none does.
FirstSuccess(tools, o) ==
    IF \E i \in 1..Len(tools) : o[i] = "zero"
    THEN CHOOSE i \in 1..Len(tools) :
            o[i] = "zero" /\ \A j \in 1..(i - 1) : o[j] # "zero"
    ELSE 0

\* A mutant of RunChain: every tool is run, whatever the earlier ones returned.
RunChainToTheEnd(tools, o) == [i \in 1..Len(tools) |-> Invoked(tools[i], o[i])]

\* The chain of `if !success { ... }` blocks: every tool is run until one has
\* exited zero; a tool that cannot be executed counts as a failure.
RunChain(tools, o) ==
    LET fs == FirstSuccess(tools, o)
        n == IF fs = 0 THEN Len(tools) ELSE fs
    IN  [i \in 1..n |-> Invoked(tools[i], o[i])]

ChainSucceeded(inv) == Len(inv) > 0 /\ inv[Len(inv)].outcome = "zero"

LinuxStaticChain == <<"gsettings", "feh", "nitrogen">>

\* LinuxWallpaperManager::set_static_wallpaper
LinuxSetStaticWallpaper(path, exists, o, cur) ==
    IF ~exists
    THEN ManagerResult("Err", "IoError", ErrorText("", "canonicalize"), <<>>, cur)
    ELSE LET inv == RunChain(LinuxStaticChain, o)
         IN  IF ChainSucceeded(inv)
             THEN ManagerResult("Ok", "none", NoText, inv, path)
             ELSE ManagerResult("Err", "WallpaperError",
                                ErrorText("Failed to set static wallpaper", "none"), inv, cur)

\* LinuxWallpaperManager::clear_wallpaper
LinuxClearWallpaper(o, cur) ==
    LET inv == RunChain(LinuxStaticChain, o)
    IN  IF ChainSucceeded(inv)
        THEN ManagerResult("Ok", "none", NoText, inv, "none")
        ELSE ManagerResult("Err", "WallpaperError",
                           ErrorText("Failed to clear wallpaper", "none"), inv, cur)

\* One command run with `.output()?`: set_web_wallpaper (firefox), and, after
\* `path.canonicalize()?`, set_shader_wallpaper and set_audio_wallpaper
\* (shadertoy).
LinuxSingleTool(tool, canonicalizes, exists, o, cur) ==
    IF canonicalizes /\ ~exists
    THEN ManagerResult("Err", "IoError", ErrorText("", "canonicalize"), <<>>, cur)
    ELSE LET inv == <<Invoked(tool, o[1])>>
         IN  CASE o[1] = "absent" ->
                    ManagerResult("Err", "IoError", ErrorText("", tool), inv, cur)
               [] o[1] = "nonzero" ->
                    ManagerResult("Err", "WallpaperError", ErrorText("", tool), inv, cur)
               [] OTHER -> ManagerResult("Ok", "none", NoText, inv, cur)

\* One hyprctl/firefox command of the Hyprland manager: `.output().map_err(..)?`
\* and the exit status check, both ending in `.into()`, which is AppError::Other.
HyprlandCommand(tool, failed, o, inv, cur) ==
    CASE o = "absent" ->
            ManagerResult("Err", "Other",
                          ErrorText("Failed to execute", tool), Append(inv, Invoked(tool, o)), cur)
      [] o = "nonzero" ->
            ManagerResult("Err", "Other", ErrorText(failed, tool),
                          Append(inv, Invoked(tool, o)), cur)
      [] OTHER -> ManagerResult("Ok", "none", NoText, Append(inv, Invoked(tool, o)), cur)

\* The loop `for monitor in monitors` of set_static_wallpaper, from monitor k.
RECURSIVE HyprlandSetMonitors(_, _, _, _, _)
HyprlandSetMonitors(k, n, o, inv, cur) ==
    IF k > n
    THEN ManagerResult("Ok", "none", NoText, inv, cur)
    ELSE LET r == HyprlandCommand("hyprctl", "Failed to set wallpaper for monitor",
                                  o[k + 1], inv, cur)
         IN  IF r.result = "Err" THEN r ELSE HyprlandSetMonitors(k + 1, n, o, r.invoked, cur)

\* HyprlandWallpaperManager::set_static_wallpaper, with n monitors reported
HyprlandSetStaticWallpaper(n, o, cur) ==
    LET m == HyprlandCommand("hyprctl", "Failed to get monitors", o[1], <<>>, cur)
    IN  CASE m.result = "Err" -> m
          [] n = 0 -> ManagerResult("Err", "Other", ErrorText("No monitors detected", "none"),
                                    m.invoked, cur)
          [] OTHER -> HyprlandSetMonitors(1, n, o, m.invoked, cur)

\* HyprlandWallpaperManager::set_shader_wallpaper (glslviewer, then shadertoy)
\* and set_audio_wallpaper (cava, then shadertoy): the fallback is tried when
\* the first tool exits non-zero, not when it cannot be executed.
HyprlandFallback(first, second, failed, o, cur) ==
    LET a == HyprlandCommand(first, failed, o[1], <<>>, cur)
    IN  CASE o[1] = "absent" -> a
          [] o[1] = "zero" -> a
          [] OTHER -> HyprlandCommand(second, failed, o[2], a.invoked, cur)

\* HyprlandWallpaperManager::clear_wallpaper
HyprlandClearWallpaper(o, cur) ==
    HyprlandCommand("hyprctl", "Failed to clear wallpaper", o[1], <<>>, cur)

\* WallpaperManager::stop_wallpaper: clear_wallpaper, in both managers.
StopWallpaper(pf, o, cur) ==
    IF pf = "linux" THEN LinuxClearWallpaper(o, cur) ELSE HyprlandClearWallpaper(o, cur)

\* WallpaperManager::set_static_wallpaper
SetStaticWallpaper(pf, path, exists, n, o, cur) ==
    IF pf = "linux"
    THEN LinuxSetStaticWallpaper(path, exists, o, cur)
    ELSE HyprlandSetStaticWallpaper(n, o, cur)

\* WallpaperManager::set_web_wallpaper
SetWebWallpaper(pf, o, cur) ==
    IF pf = "linux"
    THEN LinuxSingleTool("firefox", FALSE, TRUE, o, cur)
    ELSE HyprlandCommand("firefox", "Failed to set web wallpaper", o[1], <<>>, cur)

\* WallpaperManager::set_shader_wallpaper
SetShaderWallpaper(pf, exists, o, cur) ==
    IF pf = "linux"
    THEN LinuxSingleTool("shadertoy", TRUE, exists, o, cur)
    ELSE HyprlandFallback("glslviewer", "shadertoy", "Failed to set shader wallpaper", o, cur)

\* WallpaperManager::set_audio_wallpaper
SetAudioWallpaper(pf, exists, o, cur) ==
    IF pf = "linux"
    THEN LinuxSingleTool("shadertoy", TRUE, exists, o, cur)
    ELSE HyprlandFallback("cava", "shadertoy", "Failed to set audio wallpaper", o, cur)

\* ---- the backend object and the processes ----

WallpaperTypes == {"Static", "Video", "Web", "Shader", "Audio"}

\* The mpv processes a VideoWallpaper spawns; 0 stands for no process.
Children == 1..MaxChildren

AllPids == Children \cup HelperPids

\* XxxWallpaper::new: nothing playing or active, no process handle, no PID.
\* `mpv_process` is the Child handle (0 for None), `pid` the cached
\* shader_pid / browser_pid / audio_pid (0 for None).
WallpaperNew(t) ==
    [type |-> t, is_playing |-> FALSE, mpv_process |-> 0, is_active |-> FALSE, pid |-> 0]

\* The record of a call: the operation, what it returned ("pending" until it
\* returns), the error's kind and text, the commands the platform manager ran,
\* the pgrep passes made, the control commands attempted and the signals sent.
Call(op, r, k, t, inv, d, c, sig) ==
    [op |-> op, result |-> r, kind |-> k, text |-> t, invoked |-> inv,
     discoveries |-> d, controls |-> c, signals |-> sig]

CallOk(op, inv) == Call(op, "Ok", "none", NoText, inv, 0, 0, <<>>)

CallOf(op, m) == Call(op, m.result, m.kind, m.text, m.invoked, 0, 0, <<>>)

WallpaperError(op, msg) ==
    Call(op, "Err", "WallpaperError", ErrorText(msg, "none"), <<>>, 0, 0, <<>>)

NoBackendCall == CallOk("new", <<>>)

\* The state before any backend exists (the other parts of the model).
NoBackends ==
    /\ platform = "linux"
    /\ manager_current_wallpaper = "none"
    /\ wallpaper = WallpaperNew("Static")
    /\ pid_mutex = "free"
    /\ wp_pc = "idle"
    /\ processes = [p \in AllPids |-> "none"]
    /\ wp_call = NoBackendCall

\* create_wallpaper_manager and the construction of one backend of any type;
\* helper processes that match the pgrep pattern may already be there.
BackendNew ==
    /\ platform \in Platforms
    /\ manager_current_wallpaper = "none"
    /\ wallpaper \in {WallpaperNew(t) : t \in WallpaperTypes}
    /\ pid_mutex = "free"
    /\ wp_pc = "idle"
    /\ processes \in {f \in [AllPids -> {"none", "running"}] : \A c \in Children : f[c] = "none"}
    /\ wp_call = NoBackendCall

Alive(procs, p) == procs[p] \in {"running", "stopped"}

\* The caller is between two calls.
CanCall(t) == wallpaper.type = t /\ wp_pc = "idle"

BackendFrame == UNCHANGED <<rmVars, schedVars, lockVars, platform>>

\* ---- StaticWallpaper ----

\* StaticWallpaper::start
StaticStart ==
    \E exists \in BOOLEAN, n \in 0..MaxMonitors, o \in ToolAnswers :
        LET m == SetStaticWallpaper(platform, "asset", exists, n, o, manager_current_wallpaper)
        IN  /\ CanCall("Static")
            /\ wp_call' = CallOf("start", m)
            /\ manager_current_wallpaper' = m.current
            /\ UNCHANGED <<wallpaper, pid_mutex, wp_pc, processes>>
            /\ BackendFrame

\* StaticWallpaper::stop
StaticStop ==
    \E o \in ToolAnswers :
        LET m == StopWallpaper(platform, o, manager_current_wallpaper)
        IN  /\ CanCall("Static")
            /\ wp_call' = CallOf("stop", m)
            /\ manager_current_wallpaper' = m.current
            /\ UNCHANGED <<wallpaper, pid_mutex, wp_pc, processes>>
            /\ BackendFrame

\* StaticWallpaper::pause and StaticWallpaper::resume: nothing to do.
StaticPause ==
    /\ CanCall("Static")
    /\ wp_call' = CallOk("pause", <<>>)
    /\ UNCHANGED <<manager_current_wallpaper, wallpaper, pid_mutex, wp_pc, processes>>
    /\ BackendFrame

StaticResume ==
    /\ CanCall("Static")
    /\ wp_call' = CallOk("resume", <<>>)
    /\ UNCHANGED <<manager_current_wallpaper, wallpaper, pid_mutex, wp_pc, processes>>
    /\ BackendFrame

\* ---- VideoWallpaper ----

\* What a VideoWallpaper call leaves behind.
VideoEffect(c, w, procs) == [call |-> c, wallpaper |-> w, processes |-> procs]

\* A mutant of VideoStopped: the handle is dropped without kill and wait.
VideoStoppedWithoutKill(w, procs) ==
    VideoEffect(Call("stop", "Ok", "none", NoText, <<>>, 0, 0,
                     IF w.mpv_process # 0 THEN <<<<"KILL", w.mpv_process>>>> ELSE <<>>),
                [w EXCEPT !.mpv_process = 0, !.is_playing = FALSE], procs)

\* The body of VideoWallpaper::stop: the handle is taken, the child killed and
\* waited for (kill fails on a child that is gone, and wait returns at once),
\* the playing flag cleared.
VideoStopped(w, procs) ==
    VideoEffect(Call("stop", "Ok", "none", NoText, <<>>, 0, 0,
                     IF w.mpv_process # 0 THEN <<<<"KILL", w.mpv_process>>>> ELSE <<>>),
                [w EXCEPT !.mpv_process = 0, !.is_playing = FALSE],
                IF w.mpv_process # 0 THEN [procs EXCEPT ![w.mpv_process] = "none"] ELSE procs)

\* The pid of the next process the system creates.
FreshChild(procs) ==
    CHOOSE c \in Children : procs[c] = "none" /\ \A d \in 1..(c - 1) : procs[d] # "none"

\* The rest of VideoWallpaper::start once the old process is stopped
\* (lines 219-234, with start_mpv): `mpv` is whether get_mpv_command finds a
\* candidate whose --version exits zero, `spawn` whether cmd.spawn() succeeds.
VideoSpawned(w, procs, mpv, spawn) ==
    CASE ~mpv -> VideoEffect(WallpaperError("start", "MPV is not installed"), w, procs)
      [] ~spawn -> VideoEffect(WallpaperError("start", "Failed to start MPV"), w, procs)
      [] OTHER ->
            LET child == FreshChild(procs)
            IN  VideoEffect(CallOk("start", <<>>),
                            [w EXCEPT !.mpv_process = child, !.is_playing = TRUE],
                            [procs EXCEPT ![child] = "running"])

\* A mutant of VideoStarted: the old process is stopped before the file is
\* checked.
VideoStartedStopsFirst(w, procs, exists, mpv, spawn) ==
    LET s == VideoStopped(w, procs)
    IN  IF ~exists
        THEN VideoEffect(WallpaperError("start", "Video file does not exist"),
                         s.wallpaper, s.processes)
        ELSE VideoSpawned(s.wallpaper, s.processes, mpv, spawn)

\* The body of VideoWallpaper::start: `exists` is self.path.exists().
VideoStarted(w, procs, exists, mpv, spawn) ==
    IF ~exists
    THEN VideoEffect(WallpaperError("start", "Video file does not exist"), w, procs)
    ELSE LET s == VideoStopped(w, procs)
         IN  VideoSpawned(s.wallpaper, s.processes, mpv, spawn)

\* The system can create one more process.
CanSpawn == \E c \in Children : processes[c] = "none"

VideoApply(e) ==
    /\ wp_call' = e.call
    /\ wallpaper' = e.wallpaper
    /\ processes' = e.processes
    /\ UNCHANGED <<manager_current_wallpaper, pid_mutex, wp_pc>>
    /\ BackendFrame

\* VideoWallpaper::start
VideoStart ==
    \E exists \in BOOLEAN, mpv \in BOOLEAN, spawn \in BOOLEAN :
        /\ CanCall("Video")
        /\ CanSpawn
        /\ VideoApply(VideoStarted(wallpaper, processes, exists, mpv, spawn))

\* VideoWallpaper::stop
VideoStop ==
    /\ CanCall("Video")
    /\ VideoApply(VideoStopped(wallpaper, processes))

\* The body of VideoWallpaper::pause: the playing flag is cleared.
VideoPaused(w, procs) ==
    VideoEffect(CallOk("pause", <<>>), [w EXCEPT !.is_playing = FALSE], procs)

\* VideoWallpaper::pause
VideoPause ==
    /\ CanCall("Video")
    /\ VideoApply(VideoPaused(wallpaper, processes))

\* The body of VideoWallpaper::resume: start() when not playing, its error
\* returned with `?`.
VideoResumed(w, procs, exists, mpv, spawn) ==
    IF ~w.is_playing
    THEN LET s == VideoStarted(w, procs, exists, mpv, spawn)
         IN  VideoEffect([s.call EXCEPT !.op = "resume"], s.wallpaper, s.processes)
    ELSE VideoEffect(CallOk("resume", <<>>), w, procs)

\* VideoWallpaper::resume
VideoResume ==
    \E exists \in BOOLEAN, mpv \in BOOLEAN, spawn \in BOOLEAN :
        /\ CanCall("Video")
        /\ CanSpawn
        /\ VideoApply(VideoResumed(wallpaper, processes, exists, mpv, spawn))

\* An mpv process ends by itself (the player quits or crashes).
ChildExits ==
    \E c \in Children :
        /\ processes[c] = "running"
        /\ processes' = [processes EXCEPT ![c] = "exited"]
        /\ UNCHANGED <<manager_current_wallpaper, wallpaper, pid_mutex, wp_pc, wp_call>>
        /\ BackendFrame

\* ---- WebWallpaper, ShaderWallpaper, AudioWallpaper ----

\* find_browser_process / find_shader_process / find_audio_process, as their
\* callers read it (`if let Ok(Some(pid))`): the PID that pgrep prints, or 0.
\* Nothing is found when pgrep cannot be executed, when no process matches,
\* and when several match (the lines of stdout do not parse as one u32).
FindProcess(procs, pgrep) ==
    LET live == {p \in HelperPids : Alive(procs, p)}
    IN  IF pgrep /\ Cardinality(live) = 1 THEN CHOOSE p \in live : TRUE ELSE 0

\* What `kill -STOP` / `kill -CONT` does to the process table.
Signalled(procs, sig, p) ==
    CASE sig = "STOP" /\ procs[p] = "running" -> [procs EXCEPT ![p] = "stopped"]
      [] sig = "CONT" /\ procs[p] = "stopped" -> [procs EXCEPT ![p] = "running"]
      [] OTHER -> procs

\* WebWallpaper::start: the manager's error is returned with `?`.
WebStarted(w, m) ==
    IF m.result = "Err" THEN w ELSE [w EXCEPT !.is_active = TRUE]

\* ShaderWallpaper::start and AudioWallpaper::start: after the manager call
\* and the 500 ms sleep, one pgrep pass; its PID is cached when it finds one.
HelperStarted(w, m, found) ==
    IF m.result = "Err"
    THEN w
    ELSE [w EXCEPT !.pid = IF found # 0 THEN found ELSE w.pid, !.is_active = TRUE]

\* WebWallpaper::stop, ShaderWallpaper::stop, AudioWallpaper::stop
HelperStopped(w, m) ==
    IF m.result = "Err" THEN w ELSE [w EXCEPT !.pid = 0, !.is_active = FALSE]

PidApply(c, w, procs, cur) ==
    /\ wp_call' = c
    /\ wallpaper' = w
    /\ processes' = procs
    /\ manager_current_wallpaper' = cur
    /\ UNCHANGED <<pid_mutex, wp_pc>>
    /\ BackendFrame

\* WebWallpaper::start
WebStart ==
    \E o \in ToolAnswers :
        LET m == SetWebWallpaper(platform, o, manager_current_wallpaper)
        IN  /\ CanCall("Web")
            /\ PidApply(CallOf("start", m), WebStarted(wallpaper, m), processes, m.current)

\* ShaderWallpaper::start
ShaderStart ==
    \E exists \in BOOLEAN, o \in ToolAnswers, pgrep \in BOOLEAN :
        LET m == SetShaderWallpaper(platform, exists, o, manager_current_wallpaper)
            c == CallOf("start", m)
        IN  /\ CanCall("Shader")
            /\ PidApply(IF m.result = "Ok" THEN [c EXCEPT !.discoveries = 1] ELSE c,
                        HelperStarted(wallpaper, m, FindProcess(processes, pgrep)),
                        processes, m.current)

\* AudioWallpaper::start
AudioStart ==
    \E exists \in BOOLEAN, o \in ToolAnswers, pgrep \in BOOLEAN :
        LET m == SetAudioWallpaper(platform, exists, o, manager_current_wallpaper)
            c == CallOf("start", m)
        IN  /\ CanCall("Audio")
            /\ PidApply(IF m.result = "Ok" THEN [c EXCEPT !.discoveries = 1] ELSE c,
                        HelperStarted(wallpaper, m, FindProcess(processes, pgrep)),
                        processes, m.current)

HelperStop(t) ==
    \E o \in ToolAnswers :
        LET m == StopWallpaper(platform, o, manager_current_wallpaper)
        IN  /\ CanCall(t)
            /\ PidApply(CallOf("stop", m), HelperStopped(wallpaper, m), processes, m.current)

WebStop == HelperStop("Web")
ShaderStop == HelperStop("Shader")
AudioStop == HelperStop("Audio")

\* A call that starts by locking the PID mutex: the caller is now at
\* `self.xxx_pid.lock().await`.
BeginLockedCall(t, op) ==
    /\ CanCall(t)
    /\ wp_pc' = "lock"
    /\ wp_call' = Call(op, "pending", "none", NoText, <<>>, 0, 0, <<>>)
    /\ UNCHANGED <<manager_current_wallpaper, wallpaper, pid_mutex, processes>>
    /\ BackendFrame

\* WebWallpaper::pause, ShaderWallpaper::pause, AudioWallpaper::pause and
\* AudioWallpaper::resume, up to their first line.
WebPause == BeginLockedCall("Web", "pause")
ShaderPause == BeginLockedCall("Shader", "pause")
AudioPause == BeginLockedCall("Audio", "pause")
AudioResume == BeginLockedCall("Audio", "resume")

\* The control of a cached PID (the `if let Some(pid)` branch).  WebWallpaper
\* tries wmctrl first and returns Ok when it exits zero; otherwise, and in the
\* other backends, `kill -STOP` (pause) or `kill -CONT` (resume) is run with
\* `.output()?`: it exits zero when the process exists.
Controlled(w, c, procs, wmctrl, kill) ==
    LET sig == IF c.op = "pause" THEN "STOP" ELSE "CONT"
        n == c.controls + 1
    IN  CASE w.type = "Web" /\ wmctrl = "zero" ->
                [call |-> [c EXCEPT !.result = "Ok", !.controls = n], processes |-> procs]
          [] ~kill ->
                [call |-> [c EXCEPT !.result = "Err", !.kind = "IoError",
                                    !.text = ErrorText("", "kill"), !.controls = n],
                 processes |-> procs]
          [] Alive(procs, w.pid) ->
                [call |-> [c EXCEPT !.result = "Ok", !.controls = n,
                                    !.signals = Append(c.signals, <<sig, w.pid>>)],
                 processes |-> Signalled(procs, sig, w.pid)]
          [] OTHER ->
                [call |-> [c EXCEPT !.result = "Err", !.kind = "WallpaperError",
                                    !.text = ErrorText("Failed to pause or resume", "none"),
                                    !.controls = n,
                                    !.signals = Append(c.signals, <<sig, w.pid>>)],
                 processes |-> procs]

\* The caller gets the PID mutex and runs the body of pause / resume.  With a
\* cached PID the control is attempted and the guard dropped on return.
\* Without one the guard is dropped and one pgrep pass made; when it finds a
\* PID the mutex is locked again, the PID stored, and pause / resume called
\* again while that second guard is still alive (`return self.pause().await`
\* inside its block): the inner call is then at its own lock().await.
LockedCallBody ==
    \E wmctrl \in ToolOutcomes, kill \in BOOLEAN, pgrep \in BOOLEAN :
        /\ wp_pc = "lock"
        /\ pid_mutex = "free"
        /\ IF wallpaper.pid # 0
           THEN LET e == Controlled(wallpaper, wp_call, processes, wmctrl, kill)
                IN  /\ wp_call' = e.call
                    /\ processes' = e.processes
                    /\ wp_pc' = "idle"
                    /\ UNCHANGED <<wallpaper, pid_mutex>>
           ELSE LET found == FindProcess(processes, pgrep)
                    c == [wp_call EXCEPT !.discoveries = @ + 1]
                IN  IF found # 0
                    THEN /\ wallpaper' = [wallpaper EXCEPT !.pid = found]
                         /\ pid_mutex' = "held"
                         /\ wp_call' = c
                         /\ UNCHANGED <<wp_pc, processes>>
                    ELSE /\ wp_call' = [c EXCEPT !.result = "Err", !.kind = "WallpaperError",
                                                 !.text = ErrorText("process not found", "none")]
                         /\ wp_pc' = "idle"
                         /\ UNCHANGED <<wallpaper, pid_mutex, processes>>
        /\ UNCHANGED manager_current_wallpaper
        /\ BackendFrame

\* A mutant of NotImplemented: the call reports success.
NotImplementedReportsSuccess(op) == CallOk(op, <<>>)

\* WebWallpaper::resume and ShaderWallpaper::resume return
\* WallpaperError("... resuming not implemented yet").
NotImplemented(op) == WallpaperError(op, "resuming not implemented yet")

\* WebWallpaper::resume
WebResume ==
    /\ CanCall("Web")
    /\ wp_call' = NotImplemented("resume")
    /\ UNCHANGED <<manager_current_wallpaper, wallpaper, pid_mutex, wp_pc, processes>>
    /\ BackendFrame

\* ShaderWallpaper::resume
ShaderResume ==
    /\ CanCall("Shader")
    /\ wp_call' = NotImplemented("resume")
    /\ UNCHANGED <<manager_current_wallpaper, wallpaper, pid_mutex, wp_pc, processes>>
    /\ BackendFrame

\* A process that matches the pgrep pattern starts (the helper that the
\* manager's command left behind, or any other with a matching command line).
HelperAppears ==
    \E p \in HelperPids :
        /\ processes[p] = "none"
        /\ processes' = [processes EXCEPT ![p] = "running"]
        /\ UNCHANGED <<manager_current_wallpaper, wallpaper, pid_mutex, wp_pc, wp_call>>
        /\ BackendFrame

\* Such a process ends.
HelperExits ==
    \E p \in HelperPids :
        /\ Alive(processes, p)
        /\ processes' = [processes EXCEPT ![p] = "none"]
        /\ UNCHANGED <<manager_current_wallpaper, wallpaper, pid_mutex, wp_pc, wp_call>>
        /\ BackendFrame

(***************************************************************************)
(* The specifications                                                      *)
(***************************************************************************)

InitRM ==
    ResourceManagerNew /\ WallpaperSchedulerNew(0, 0) /\ store = NoStore /\ NoBackends

NextRM == Register \/ Update \/ Unregister

SpecRM == InitRM /\ [][NextRM]_vars

\* The locking of the resource manager, under concurrent calls.
NextLocks ==
    \/ CallRegister
    \/ CallUpdate
    \/ CallUnregister
    \/ CallQuery
    \/ Request
    \/ Grant
    \/ Release

SpecLocks == InitRM /\ [][NextLocks]_vars

\* register_resource called by the tasks concurrently.
NextRace == Validate \/ Insert \/ Account \/ Return

SpecRace == InitRM /\ [][NextRace]_vars

\* The resource manager alone, called with arguments at the edges of u64, i64
\* and f32.
NextRMWide == RegisterWide \/ UpdateWide \/ Unregister

SpecRMWide == InitRM /\ [][NextRMWide]_vars

\* The UI's handlers that change the schedule (app.rs 298-330 and 519-535).

\* "Save" on a new item: add_schedule_item, then save_schedule
AddItem ==
    \E item \in ItemChoices :
        /\ AddScheduleItem(item)
        /\ store' = SaveSchedule(store, schedule_items')

\* "Delete": remove_schedule_item, and no save_schedule
RemoveItem ==
    \E index \in 0..MaxItems :
        /\ RemoveScheduleItem(index)
        /\ UNCHANGED store

\* "Save" on an item being edited: update_schedule_item, then save_schedule
UpdateItem ==
    \E index \in 0..MaxItems, item \in ItemChoices :
        /\ UpdateScheduleItem(index, item)
        /\ store' = SaveSchedule(store, schedule_items')

\* The enable checkbox of a listed item: update_schedule_item, and no
\* save_schedule
ToggleItem ==
    \E index \in 0..(Len(schedule_items) - 1) :
        /\ UpdateScheduleItem(index, [schedule_items[index + 1] EXCEPT !.enabled = ~@])
        /\ UNCHANGED store

UIApply == \E w \in UISelections : UIApplyWallpaper(w)

Load == LoadSchedule(store)

InitSched ==
    /\ ResourceManagerNew
    /\ limits.max_processes = 2
    /\ overflow_checks
    /\ WallpaperSchedulerNew(0, ShortTime)
    /\ store \in LoadableStores
    /\ NoBackends

NextSched ==
    \/ Advance
    \/ Load
    \/ SchedulerStart
    \/ SchedulerStop
    \/ JoinReturns
    \/ LoopCheck
    \/ PassItem
    \/ Wake
    \/ ApplyStopOld
    \/ ApplyStartNew
    \/ AddItem
    \/ RemoveItem
    \/ UpdateItem
    \/ UIApply
    \/ UIStopWallpaper

SpecSched == InitSched /\ [][NextSched]_vars

\* The schedule, its file and the handlers of the UI that change the schedule,
\* next to a running scheduler.
InitStore ==
    /\ ResourceManagerNew
    /\ limits.max_processes = 2
    /\ overflow_checks
    /\ WallpaperSchedulerNew(0, ShortTime)
    /\ store \in StoreStates \cup {Store("parses", PausedSchedule, TRUE)}
    /\ NoBackends

NextStore ==
    \/ Advance
    \/ Load
    \/ SchedulerStart
    \/ LoopCheck
    \/ PassItem
    \/ Wake
    \/ ApplyStopOld
    \/ ApplyStartNew
    \/ AddItem
    \/ RemoveItem
    \/ UpdateItem
    \/ ToggleItem

SpecStore == InitStore /\ [][NextStore]_vars

\* The scheduler and its owner, with the progress the platform provides: the
\* background thread is scheduled, its sleep and every backend call it makes
\* return, time passes, and join() returns once the thread has ended.
ThreadStep ==
    \/ LoopCheck
    \/ PassItem
    \/ Wake
    \/ SleepReturnsAtHorizon
    \/ ApplyStopOld
    \/ ApplyStartNew

NextStop ==
    \/ Advance
    \/ Load
    \/ SchedulerStart
    \/ SchedulerStop
    \/ JoinReturns
    \/ ThreadStep

SpecStop ==
    /\ InitSched
    /\ [][NextStop]_vars
    /\ WF_vars(ThreadStep)
    /\ WF_vars(Advance)
    /\ WF_vars(JoinReturns)

InitClock ==
    /\ ResourceManagerNew
    /\ limits.max_processes = 2
    /\ overflow_checks
    /\ WallpaperSchedulerNew(0, MaxTime)
    /\ store \in LoadableStores
    /\ NoBackends

NextClock ==
    \/ Advance
    \/ ClockSetBack
    \/ Load
    \/ SchedulerStart
    \/ SchedulerStop
    \/ JoinReturns
    \/ LoopCheck
    \/ PassItem
    \/ Wake
    \/ ApplyStopOld
    \/ ApplyStartNew

SpecClock == InitClock /\ [][NextClock]_vars

\* One backend of any type, on either platform manager, called by one thread;
\* processes come and go beside it.
InitBackend ==
    /\ ResourceManagerNew
    /\ limits.max_processes = 2
    /\ overflow_checks
    /\ WallpaperSchedulerNew(0, 0)
    /\ store = NoStore
    /\ BackendNew

NextBackend ==
    \/ StaticStart
    \/ StaticStop
    \/ StaticPause
    \/ StaticResume
    \/ VideoStart
    \/ VideoStop
    \/ VideoPause
    \/ VideoResume
    \/ ChildExits
    \/ WebStart
    \/ WebStop
    \/ WebPause
    \/ WebResume
    \/ ShaderStart
    \/ ShaderStop
    \/ ShaderPause
    \/ ShaderResume
    \/ AudioStart
    \/ AudioStop
    \/ AudioPause
    \/ AudioResume
    \/ LockedCallBody
    \/ HelperAppears
    \/ HelperExits

SpecBackend == InitBackend /\ [][NextBackend]_vars

(***************************************************************************)
(* Part I.  Properties of the ResourceManager                              *)
(***************************************************************************)

RECURSIVE SumOver(_, _, _)
\* The sum of field f over the entries of m with ids in S.
SumOver(m, S, f) ==
    IF S = {} THEN 0
    ELSE LET k == CHOOSE x \in S : TRUE IN m[k][f] + SumOver(m, S \ {k}, f)

LimitErrors ==
    {"Would exceed maximum memory limit", "Would exceed maximum GPU memory limit"}

\* C3: in every reachable state the aggregate memory_used and gpu_memory_used
\* equal the sums of those fields over the registered per-id usages.
C3_AggregateIsSum ==
    /\ usage.memory_used = SumOver(active_resources, DOMAIN active_resources, "memory_used")
    /\ usage.gpu_memory_used =
           SumOver(active_resources, DOMAIN active_resources, "gpu_memory_used")

\* What C4 says makes register_resource(id, u) fail.
C4_ClaimedReject(u) ==
    \/ usage.memory_used + u.memory_used > limits.max_memory
    \/ usage.gpu_memory_used + u.gpu_memory_used > limits.max_gpu_memory
    \/ usage.active_processes = limits.max_processes

\* C4: register_resource(id, U) returns an error if and only if
\* aggregate.memory_used + U.memory_used > max_memory, or
\* aggregate.gpu_memory_used + U.gpu_memory_used > max_gpu_memory, or
\* active_processes = max_processes; in every other case it returns Ok.
C4_RegisterRejectsIff ==
    [][\A id \in ResourceIds, u \in UsageArgs :
          RegisterResource(id, u) => ((rm_call'.result # "Ok") <=> C4_ClaimedReject(u))]_vars

\* C5: a rejected register_resource call mutates nothing: the aggregate, the
\* per-id map and the total-allocated / total-freed counters are as before.
C5_RejectedRegisterMutatesNothing ==
    [][(rm_call'.op = "register" /\ rm_call'.result # "Ok")
          => UNCHANGED <<usage, active_resources, total_allocated, total_freed>>]_vars

\* C5 witness: a register was rejected while a resource was registered.
C5_Witness ==
    /\ rm_call.op = "register"
    /\ rm_call.result # "Ok"
    /\ DOMAIN active_resources # {}
    /\ usage.memory_used > 0

\* C6: an update_resource call rejected for a memory or GPU limit leaves the
\* per-id entry and the aggregate memory_used, gpu_memory_used and cpu_usage
\* exactly as before the call.
C6_RejectedUpdateMutatesNothing ==
    [][(rm_call'.op = "update" /\ rm_call'.result \in LimitErrors)
          => /\ active_resources' = active_resources
             /\ usage'.memory_used = usage.memory_used
             /\ usage'.gpu_memory_used = usage.gpu_memory_used
             /\ usage'.cpu_usage = usage.cpu_usage]_vars

\* C11: whenever register_resource(id, U) accepts U, an unregister_resource(id)
\* made right after it returns the aggregate usage (memory, GPU memory, CPU,
\* active process count) to what it was before the register.
C11_RegisterUnregisterRoundTrip ==
    [][\A id \in ResourceIds, u \in WideArgs :
          (RegisterResource(id, u) /\ rm_call'.result = "Ok")
              => UnregisterUsage(usage', active_resources'[id]) = usage]_vars

RegisteredMemory == SumOver(active_resources, DOMAIN active_resources, "memory_used")

RegisteredGpuMemory ==
    SumOver(active_resources, DOMAIN active_resources, "gpu_memory_used")

\* C13: a resource is accepted once enough registered usage has been
\* unregistered: register_resource(id, U) returns Ok whenever fewer than
\* max_processes resources are registered and what is registered, together with
\* U, is within max_memory and max_gpu_memory (as for b of the limits test after
\* a has been unregistered).
C13_AcceptedOnceRoomIsFreed ==
    [][\A id \in ResourceIds, u \in UsageArgs :
          ( /\ RegisterResource(id, u)
            /\ Cardinality(DOMAIN active_resources) < limits.max_processes
            /\ RegisteredMemory + u.memory_used <= limits.max_memory
            /\ RegisteredGpuMemory + u.gpu_memory_used <= limits.max_gpu_memory )
          => rm_call'.result = "Ok"]_vars

\* A task waits for lock l.
WaitsFor(t, l) ==
    InCall(t) /\ task_call[t].waiting /\ NextLockStep(t).lock = l

\* A task can take its next step.
CanProceed(t) ==
    /\ InCall(t)
    /\ task_call[t].waiting =>
           LET l == NextLockStep(t).lock IN
           /\ Head(lock_queue[l]).task = t
           /\ Grantable(l, Head(lock_queue[l]).mode)

\* C16: an operation of the manager that holds both locks has taken the lock of
\* the per-id map before the lock of the aggregate usage (no task asks for the
\* map while it holds the aggregate), and concurrent register / update /
\* unregister / query calls never deadlock: while a call is under way, some
\* call can take its next step.
C16_MapLockFirstNoDeadlock ==
    /\ \A t \in Tasks :
           (InCall(t) /\ NextLockStep(t) = Acq("active_resources", NextLockStep(t).mode))
               => ~Holds(t, "usage")
    /\ (\E t \in Tasks : InCall(t)) => (\E t \in Tasks : CanProceed(t))

\* C16 witness: a task holds the map's lock and waits for the aggregate's,
\* which another task holds.
C16_Witness ==
    \E t, o \in Tasks :
        /\ t # o
        /\ Holds(t, "active_resources")
        /\ WaitsFor(t, "usage")
        /\ Holds(o, "usage")


(***************************************************************************)
(* Part II.  Properties of the scheduler, the backends and the UI          *)
(***************************************************************************)

\* C1: at every moment at most one wallpaper backend is active (started and
\* not yet stopped) system-wide, whatever the interleaving of scheduler fires
\* and manual apply/stop requests of the UI.
C1_AtMostOneActive == Cardinality(started) <= 1

\* C2: whenever the scheduler applies a wallpaper while a backend occupies the
\* slot, the old backend's stop() has returned, and the old backend is no
\* longer active, in every state from which the new backend's start() begins;
\* and after a successful apply the slot holds only the new backend.
C2_StopBeforeStart ==
    /\ pc = "start_new" =>
          /\ apply_rec.stop # "pending"
          /\ apply_rec.before # NoBackend =>
                /\ apply_rec.stop \in {"Ok", "Err"}
                /\ apply_rec.before.id \notin started
    /\ apply_rec.start = "Ok" =>
          /\ current_wallpaper = apply_rec.new
          /\ current_wallpaper # apply_rec.before
          /\ apply_rec.before.id \notin started

\* C2 witness: Static was applied while a Video backend was active.
C2_Witness ==
    /\ apply_rec.before.type = "Video"
    /\ apply_rec.stop = "Ok"
    /\ apply_rec.start = "Ok"
    /\ current_wallpaper.type = "Static"
    /\ started = {current_wallpaper.id}

\* C7, as claimed: if a start() failed during an evaluation pass, the slot
\* holds after the pass exactly what it held before the pass.
C7_SlotUnchangedAfterPass ==
    (pass_rec.done /\ pass_rec.start_failed) => current_wallpaper = pass_rec.before

\* C7, amended: if the new backend's start() fails in an apply, the slot holds
\* after that apply exactly the backend it held before that apply.
C7_SlotUnchangedAfterFailedApply ==
    apply_rec.start = "Err" => current_wallpaper = apply_rec.before

\* C7 witness: a Video item whose file does not exist failed to start while
\* the slot held a backend.
C7_Witness ==
    /\ apply_rec.start = "Err"
    /\ apply_rec.new.type = "Video"
    /\ apply_rec.new.path = "missing"
    /\ apply_rec.before # NoBackend
    /\ current_wallpaper = apply_rec.before

C9_TicksInSameMinute ==
    /\ last_tick.t >= 0
    /\ prev_tick.t >= 0
    /\ AbsMinute(last_tick.t) = AbsMinute(prev_tick.t)

\* C9, as claimed: of two ticks inside the same wall-clock minute exactly one
\* performs an evaluation pass.
C9_ExactlyOnePass == C9_TicksInSameMinute => (last_tick.pass # prev_tick.pass)

\* C9, amended: of two ticks inside the same wall-clock minute at most one
\* performs an evaluation pass; a tick performs a pass exactly when at least
\* one minute has elapsed since the last evaluation, and never in the
\* wall-clock minute of that evaluation.
C9_AtMostOnePass ==
    /\ C9_TicksInSameMinute => ~(last_tick.pass /\ prev_tick.pass)
    /\ last_tick.t >= 0 =>
          (last_tick.pass <=> last_tick.t - last_tick.since >= OneMinuteSecs)
    /\ last_tick.pass => AbsMinute(last_tick.t) # AbsMinute(last_tick.since)

\* C9 witness: a tick performed a pass, and the next tick, made in the same
\* wall-clock minute, was coalesced.
C9_Witness ==
    /\ C9_TicksInSameMinute
    /\ prev_tick.pass
    /\ ~last_tick.pass
    /\ last_tick.since = prev_tick.t

\* Whether Time trigger tr matches wall-clock time t.
C10_Matches(tr, t) == HourOf(t) = tr.hour /\ MinuteOf(t) = tr.minute

\* C10: in an evaluation pass an enabled Time(h,m) item fires if and only if
\* the hour and minute of the pass equal h and m; it has not fired before in
\* that day's matching minute; and every firing recorded lies in a matching
\* minute (nothing is fired later to catch up).
C10_TimeTriggerFiresOnMatch ==
    [][/\ (/\ pc = "pass"
           /\ pc' # pc \/ idx' # idx
           /\ idx <= Len(schedule_items)
           /\ schedule_items[idx].enabled
           /\ schedule_items[idx].trigger.kind = "Time")
          => /\ pc' = "stop_old" <=> C10_Matches(schedule_items[idx].trigger, loop_now)
             /\ pc' = "stop_old" =>
                   ~\E f \in time_fires :
                       f.idx = idx /\ f.minute = AbsMinute(loop_now)
       /\ \A f \in time_fires' : C10_Matches(f.trigger, f.minute * OneMinuteSecs)]_vars

\* C10 witness: a Time item has fired in its minute on two different days.
C10_Witness ==
    \E f, g \in time_fires :
        /\ f.trigger = g.trigger
        /\ DayOf(f.minute * OneMinuteSecs) # DayOf(g.minute * OneMinuteSecs)

\* C14: whatever start() and stop() calls the owner makes, exactly one
\* background loop is alive while the scheduler is running and none once it is
\* stopped: start() on a running scheduler spawns nothing, and when stop() has
\* returned the loop has exited, so that no evaluation pass and no backend call
\* of the scheduler is under way.
C14_OneLoopWhileRunning ==
    /\ is_running => (live_loops = 1 /\ pc # "none")
    /\ (~is_running /\ owner_pc = "idle") => (live_loops = 0 /\ pc = "none")

\* C14 witness: stop() has returned on a scheduler whose loop had been through
\* an evaluation pass.
C14_Witness ==
    /\ ~is_running
    /\ owner_pc = "idle"
    /\ scheduler_thread = "None"
    /\ last_tick.pass


\* The background thread is inside a backend's stop() or start().
BackendCallInFlight == pc \in {"stop_old", "start_new"}

\* C15: stop() of the scheduler is cooperative and terminates: the thread is
\* never ended inside a backend start()/stop() call (such a call is followed
\* by the rest of apply_wallpaper, and stop() does not return while it
\* lasts), and a stop() that waits for the thread eventually returns.
C15_StopCooperativeAndTerminates ==
    /\ [][BackendCallInFlight =>
              (pc' # "none" /\ (owner_pc = "joining" => owner_pc' = "joining"))]_vars
    /\ (owner_pc = "joining") ~> (owner_pc = "idle" /\ pc = "none")

\* C15 witness: stop() is waiting for a thread that is inside a backend call.
C15_Witness ==
    /\ owner_pc = "joining"
    /\ ~is_running
    /\ BackendCallInFlight


\* The background thread deals with the item at idx in this step.
EvaluatesItem ==
    /\ pc = "pass"
    /\ idx <= Len(schedule_items)
    /\ pc' # pc \/ idx' # idx

\* C17: an enabled Interval(d) item fires on every evaluation pass, whatever d
\* is and however recently the item fired: when the pass comes to it,
\* apply_wallpaper is called.
C17_IntervalFiresEveryPass ==
    [][( /\ EvaluatesItem
         /\ schedule_items[idx].enabled
         /\ schedule_items[idx].trigger.kind = "Interval" )
          => pc' = "stop_old"]_vars

\* C17 witness: an Interval item is firing although the pass before this one,
\* in which it fired too, began less than its duration ago.
C17_Witness ==
    /\ pc = "stop_old"
    /\ schedule_items[idx].trigger.kind = "Interval"
    /\ prev_tick.pass
    /\ last_tick.pass
    /\ loop_now - prev_tick.t < schedule_items[idx].trigger.every


\* C18: evaluating an item whose trigger is SystemEvent or Custom takes no
\* action: the pass goes on to the next item, no backend is stopped,
\* constructed or started, and the scheduler's slot is unchanged.
C18_UnimplementedTriggersDoNothing ==
    [][( /\ EvaluatesItem
         /\ schedule_items[idx].trigger.kind \in {"SystemEvent", "Custom"} )
          => /\ pc' = "pass"
             /\ idx' = idx + 1
             /\ UNCHANGED <<current_wallpaper, started, apply_rec>>]_vars

\* C18 witness: a pass has gone through a schedule of enabled SystemEvent and
\* Custom items and is over without an apply_wallpaper call.
C18_Witness ==
    /\ schedule_items # <<>>
    /\ \A i \in 1..Len(schedule_items) :
           /\ schedule_items[i].enabled
           /\ schedule_items[i].trigger.kind \in {"SystemEvent", "Custom"}
    /\ pc = "sleep"
    /\ pass_rec.done
    /\ apply_rec = NoApply


\* C19: after every add_schedule_item, update_schedule_item and
\* remove_schedule_item, those made by the UI's enable checkbox and Delete
\* button included, the schedule file holds the in-memory list (as long as the
\* file can be written).
C19_StoreFollowsEveryMutation ==
    [][(edits' # edits /\ schedule_items' # schedule_items /\ store.writable)
          => (store'.kind = "parses" /\ store'.items = schedule_items')]_vars


\* C20: when the schedule file cannot be read or parsed, load_schedule returns
\* a ConfigError, the scheduler is left with an empty or the default schedule
\* and can still be started (its owner is free to call start(), which will
\* spawn the loop); when there is no schedule file, the default
\* schedule of two enabled items, Time 08:00 and Time 18:00, is installed.
C20_LoadFallsBack ==
    [][(loaded' /\ ~loaded) =>
          /\ store.kind \in {"unreadable", "malformed"} =>
                 /\ load_result' = "ConfigError"
                 /\ schedule_items' \in {<<>>, DefaultSchedule}
                 /\ owner_pc' = "idle" /\ ~is_running'
          /\ store.kind = "missing" =>
                 /\ Len(schedule_items') = 2
                 /\ schedule_items'[1].trigger = TimeTrigger(8, 0)
                 /\ schedule_items'[2].trigger = TimeTrigger(18, 0)
                 /\ schedule_items'[1].enabled /\ schedule_items'[2].enabled]_vars

(***************************************************************************)
(* Part III.  Properties of the backends and the platform managers         *)
(***************************************************************************)

\* A call on the backend has just returned or advanced.
BackendCalled ==
    wp_call' # wp_call \/ manager_current_wallpaper' # manager_current_wallpaper

\* The commands run are the first ones of the Linux chain, in its order, and
\* none was run after one that exited zero.
InChainOrder(inv) ==
    /\ Len(inv) <= Len(LinuxStaticChain)
    /\ \A i \in 1..Len(inv) : inv[i].tool = LinuxStaticChain[i]
    /\ \A i \in 1..(Len(inv) - 1) : inv[i].outcome # "zero"

AllFailed(inv) ==
    /\ Len(inv) = Len(LinuxStaticChain)
    /\ \A i \in 1..Len(inv) : inv[i].outcome # "zero"

LinuxChainCall ==
    /\ platform = "linux"
    /\ wallpaper.type = "Static"
    /\ BackendCalled
    /\ wp_call'.op \in {"start", "stop"}

\* C21 as stated: set_static_wallpaper and clear_wallpaper of the Linux manager
\* run gsettings, feh, nitrogen in that order, return Ok at the first that
\* exits zero and run nothing after it, return an error only when all three
\* have failed, and change the recorded current wallpaper only on success.
C21_ErrorOnlyWhenAllFailed ==
    [][LinuxChainCall =>
        /\ InChainOrder(wp_call'.invoked)
        /\ wp_call'.result = "Ok" <=> ChainSucceeded(wp_call'.invoked)
        /\ wp_call'.result = "Err" => AllFailed(wp_call'.invoked)
        /\ wp_call'.result = "Err" =>
                manager_current_wallpaper' = manager_current_wallpaper]_vars

\* The path of set_static_wallpaper did not resolve (path.canonicalize()?).
PathUnresolved(c) == c.op = "start" /\ c.kind = "IoError" /\ c.text.diag = "canonicalize"

\* C21, amended: the same, except that set_static_wallpaper also returns an
\* error, before running any tool, when its path cannot be canonicalized.
C21_ChainInOrderFirstSuccessWins ==
    [][LinuxChainCall =>
        /\ InChainOrder(wp_call'.invoked)
        /\ wp_call'.result = "Ok" <=> ChainSucceeded(wp_call'.invoked)
        /\ wp_call'.result = "Err" =>
                \/ AllFailed(wp_call'.invoked)
                \/ PathUnresolved(wp_call') /\ wp_call'.invoked = <<>>
        /\ wp_call'.result = "Err" =>
                manager_current_wallpaper' = manager_current_wallpaper
        /\ wp_call'.result = "Ok" =>
                manager_current_wallpaper' = IF wp_call'.op = "start" THEN "asset" ELSE "none"]_vars

\* gsettings failed, feh exited zero, nitrogen was not run, and the path is
\* recorded.
C21_Witness ==
    /\ platform = "linux"
    /\ wallpaper.type = "Static"
    /\ wp_call.op = "start"
    /\ wp_call.result = "Ok"
    /\ Len(wp_call.invoked) = 2
    /\ wp_call.invoked[1].outcome # "zero"
    /\ wp_call.invoked[2] = Invoked("feh", "zero")
    /\ manager_current_wallpaper = "asset"


\* Every command the manager ran in the call failed.
ChainExhausted(c) ==
    /\ c.result = "Err"
    /\ Len(c.invoked) > 0
    /\ \A i \in 1..Len(c.invoked) : c.invoked[i].outcome # "zero"

\* C22: when every tool of a manager's fallback chain has failed, the error
\* returned is a PlatformError whose text is the diagnostic of the last tool
\* tried.
C22_ExhaustedChainReportsLastDiagnostic ==
    ChainExhausted(wp_call) =>
        /\ wp_call.kind = "PlatformError"
        /\ wp_call.text.diag = wp_call.invoked[Len(wp_call.invoked)].tool


\* The mpv processes spawned by the backend that are running.
RunningChildren(procs) == {c \in Children : procs[c] = "running"}

\* C23: pause() on a playing Video backend leaves no mpv process of it
\* running; a resume() that follows leaves exactly one running and the backend
\* playing; resume() on a playing backend changes nothing.
C23_PauseStopsResumeRestarts ==
    [][wallpaper.type = "Video" /\ wp_call' # wp_call =>
        /\ wp_call'.op = "pause" /\ wallpaper.is_playing =>
                RunningChildren(processes') = {}
        /\ wp_call'.op = "resume" /\ wp_call'.result = "Ok" /\ ~wallpaper.is_playing =>
                Cardinality(RunningChildren(processes')) = 1 /\ wallpaper'.is_playing
        /\ wp_call'.op = "resume" /\ wallpaper.is_playing =>
                UNCHANGED <<wallpaper, processes>>]_vars


\* C24: in every state a Video backend can be in, start() on a path that does
\* not exist returns a WallpaperError and leaves the process handle, the
\* playing flag and the processes as they were: nothing is killed or spawned.
C24_MissingFileFailsBeforeAnyProcess ==
    wallpaper.type = "Video" =>
        \A mpv \in BOOLEAN, spawn \in BOOLEAN :
            LET e == VideoStarted(wallpaper, processes, FALSE, mpv, spawn)
            IN  /\ e.call.result = "Err"
                /\ e.call.kind = "WallpaperError"
                /\ e.wallpaper = wallpaper
                /\ e.processes = processes

\* start() has just failed on a missing file while the backend was playing:
\* it still plays, and its process still runs.
C24_Witness ==
    /\ wallpaper.type = "Video"
    /\ wp_call.op = "start"
    /\ wp_call.result = "Err"
    /\ wp_call.text.msg = "Video file does not exist"
    /\ wallpaper.is_playing
    /\ wallpaper.mpv_process # 0
    /\ processes[wallpaper.mpv_process] = "running"


\* The mpv processes spawned by the backend that have not been waited for.
OwnedChildren(procs) == {c \in Children : procs[c] # "none"}

\* C25: in every state a Video backend can be in, stop() returns Ok, leaves no
\* process handle and the backend not playing, and the child it held, whether
\* still running or already exited, is gone (killed and waited for); stop() on
\* the result changes nothing more; and the backend never has more than one
\* child process.
C25_StopKillsAndIsIdempotent ==
    wallpaper.type = "Video" =>
        LET e == VideoStopped(wallpaper, processes)
            again == VideoStopped(e.wallpaper, e.processes)
        IN  /\ e.call.result = "Ok"
            /\ e.wallpaper.mpv_process = 0
            /\ ~e.wallpaper.is_playing
            /\ wallpaper.mpv_process # 0 => e.processes[wallpaper.mpv_process] = "none"
            /\ OwnedChildren(e.processes) = {}
            /\ again.call.result = "Ok"
            /\ again.wallpaper = e.wallpaper
            /\ again.processes = e.processes
            /\ Cardinality(OwnedChildren(processes)) <= 1

\* stop() has just killed the child the backend held: nothing is held and no
\* process is left.
C25_Witness ==
    /\ wallpaper.type = "Video"
    /\ wp_call.op = "stop"
    /\ wp_call.result = "Ok"
    /\ wp_call.signals # <<>>
    /\ wallpaper.mpv_process = 0
    /\ ~wallpaper.is_playing
    /\ OwnedChildren(processes) = {}


\* A pause() or resume() of a backend with a cached PID has just returned, and
\* its control command could be executed.
ControlReturned ==
    /\ wallpaper.pid # 0
    /\ wp_call' # wp_call
    /\ wp_call'.op \in {"pause", "resume"}
    /\ wp_call'.result # "pending"
    /\ wp_call'.kind # "IoError"

\* C26: on a Shader or Audio backend with a discovered PID, pause() sends the
\* suspend signal and resume() the continue signal to that PID, returning Ok
\* when the process is there to receive it; after a resume() that returned Ok
\* the helper is running.
C26_PauseSuspendsResumeContinues ==
    [][wallpaper.type \in {"Shader", "Audio"} /\ ControlReturned =>
        /\ wp_call'.signals =
                <<<<IF wp_call'.op = "pause" THEN "STOP" ELSE "CONT", wallpaper.pid>>>>
        /\ Alive(processes, wallpaper.pid) => wp_call'.result = "Ok"
        /\ wp_call'.op = "resume" /\ wp_call'.result = "Ok" =>
                processes'[wallpaper.pid] = "running"]_vars


\* C27: every resume() on a Web backend returns the not-implemented
\* WallpaperError, never Ok, and changes nothing: the cached PID, the active
\* flag, the processes and the manager are as before.
C27_WebResumeNotImplemented ==
    [][wallpaper.type = "Web" /\ wp_call' # wp_call /\ wp_call'.op = "resume" =>
        /\ wp_call'.result = "Err"
        /\ wp_call'.kind = "WallpaperError"
        /\ wp_call'.text.msg = "resuming not implemented yet"
        /\ UNCHANGED <<wallpaper, processes, manager_current_wallpaper, pid_mutex>>]_vars

\* resume() has just been refused on a Web backend that is active.
C27_Witness ==
    /\ wallpaper.type = "Web"
    /\ wallpaper.is_active
    /\ wp_call.op = "resume"
    /\ wp_call.result = "Err"


\* C28: a pause() or resume() issued without a cached PID makes one pgrep pass
\* and at most one control attempt, and returns: the call is never left
\* waiting, at lock().await, for a mutex that is held (the calls on a backend
\* come one after the other, so nobody else could release it).
C28_OneDiscoveryThenReturns ==
    /\ wp_call.discoveries <= 1
    /\ wp_call.controls <= 1
    /\ wp_pc = "lock" => pid_mutex = "free"


\* C29: whatever the backend, a start() that fails (the helper binary cannot
\* be executed, the asset does not exist, the command exits non-zero) fails
\* with a WallpaperError and does not mark the backend active or playing; and
\* a start() that went through the platform manager returns Ok only when the
\* last command it ran exited zero.
C29_StartFailsWithWallpaperError ==
    [][wp_call' # wp_call /\ wp_call'.op = "start" =>
        /\ wp_call'.result = "Err" =>
                /\ wp_call'.kind = "WallpaperError"
                /\ wallpaper'.is_active => wallpaper.is_active
                /\ wallpaper'.is_playing => wallpaper.is_playing
        /\ wp_call'.result = "Ok" /\ wallpaper.type # "Video" =>
                ChainSucceeded(wp_call'.invoked)]_vars


(***************************************************************************)
(* Part II, continued.  Failures inside an evaluation pass                 *)
(***************************************************************************)

\* The background thread is as alive after the step as before it.
LoopGoesOn ==
    /\ live_loops' = live_loops
    /\ is_running' = is_running
    /\ scheduler_thread' = scheduler_thread

\* C30: when stop() of the old backend fails for a fired item, the scheduler
\* goes on to start the new one; when start() of the new backend fails, it goes
\* on with the next item of the same pass; in both cases the thread and the
\* schedule are untouched, and a pass ends only after its last item has been
\* visited.
C30_FailureSkipsOnlyThatItem ==
    [][/\ pc = "stop_old" /\ pc' # pc /\ apply_rec'.stop = "Err" =>
            pc' = "start_new" /\ idx' = idx /\ LoopGoesOn
       /\ pc = "start_new" /\ pc' # pc /\ apply_rec'.start = "Err" =>
            /\ pc' = "pass"
            /\ idx' = idx + 1
            /\ schedule_items' = schedule_items
            /\ LoopGoesOn
       /\ pass_rec'.done /\ ~pass_rec.done => idx > Len(schedule_items)]_vars

\* An item's start() failed earlier in this pass, and a later item of the same
\* pass has been applied since.
C30_Witness ==
    /\ pc = "pass"
    /\ ~pass_rec.done
    /\ pass_rec.start_failed
    /\ apply_rec.start = "Ok"
    /\ live_loops = 1

(***************************************************************************)
(* Part I, continued.  Updates, the process count and the audit counters   *)
(***************************************************************************)

\* The aggregate `current` with the entry old taken off and new put on, field
\* by field, computed exactly.
Replaced(current, old, new) ==
    [current EXCEPT
        !.memory_used = @ - old.memory_used + new.memory_used,
        !.gpu_memory_used = @ - old.gpu_memory_used + new.gpu_memory_used,
        !.cpu_usage = @ - old.cpu_usage + new.cpu_usage]

\* C31: after a successful update_resource(id, new_usage) the per-id entry of
\* id is new_usage and the aggregate memory, GPU memory and CPU are the previous
\* aggregate minus id's old usage plus new_usage; update_resource on an
\* unregistered id returns an error and changes nothing.
C31_UpdateReplacesUsage ==
    [][\A id \in ResourceIds, new \in UsageArgs :
          UpdateResource(id, new) =>
              IF id \in DOMAIN active_resources
              THEN rm_call'.result = "Ok" =>
                       /\ active_resources'[id] = new
                       /\ usage' = Replaced(usage, active_resources[id], new)
              ELSE /\ rm_call'.result = "Resource not found"
                   /\ UNCHANGED <<usage, active_resources, total_allocated,
                                  total_freed>>]_vars

\* C32: under any interleaving of concurrent register_resource calls the
\* aggregate memory_used never exceeds max_memory, the aggregate
\* gpu_memory_used never exceeds max_gpu_memory, and the number of registered
\* ids never exceeds max_processes.
C32_LimitsHoldUnderConcurrency ==
    /\ usage.memory_used <= limits.max_memory
    /\ usage.gpu_memory_used <= limits.max_gpu_memory
    /\ Cardinality(DOMAIN active_resources) <= limits.max_processes

\* C34: in every reachable state the aggregate active_processes equals the
\* number of ids in the per-id map, also after register_resource has been
\* called with an id that is registered already.
C34_ProcessCountIsMapSize ==
    usage.active_processes = Cardinality(DOMAIN active_resources)

C33_SlotHoldsRunningBackend ==
    [][(pc = "start_new" /\ pc' # "start_new")
          => (current_wallpaper' # NoBackend => current_wallpaper'.id \in started')]_vars

\* C36: the scheduler loop never holds the lock of the schedule list while a
\* backend stop() or start() call is in flight, so a schedule edit called by the
\* UI thread in that time does not wait for the call to return.
C36_ListLockFreeDuringBackendCalls ==
    /\ BackendCallInFlight => ScheduleLockFree
    /\ (BackendCallInFlight /\ owner_pc = "idle" /\ edits < MaxEdits)
           => ENABLED RemoveItem

(***************************************************************************)
(* Part III, continued.  The fallback of the Hyprland manager              *)
(***************************************************************************)

\* C37: HyprlandWallpaperManager::set_shader_wallpaper (glslviewer, then
\* shadertoy) and set_audio_wallpaper (cava, then shadertoy) attempt the second
\* tool whenever the first one fails, by a non-zero exit or by failing to
\* execute, and return success whenever the second tool exits zero.
C37_FallbackTriedOnEveryFailure ==
    ( /\ platform = "hyprland"
      /\ wallpaper.type \in {"Shader", "Audio"}
      /\ wp_call.op = "start"
      /\ Len(wp_call.invoked) >= 1
      /\ wp_call.invoked[1].outcome # "zero" )
    => /\ Len(wp_call.invoked) = 2
       /\ wp_call.invoked[2].tool = "shadertoy"
       /\ wp_call.invoked[2].outcome = "zero" => wp_call.result = "Ok"

(***************************************************************************)
(* Part II, continued.  Disabled items and the edits of the schedule list  *)
(***************************************************************************)

\* C38: an item with enabled = false never fires, whatever its trigger: the
\* evaluation pass goes on to the next item and stops, constructs and starts
\* nothing and leaves the current slot alone; an item that update_schedule_item
\* has enabled again is evaluated like any enabled item by the next pass (it
\* fires when its trigger does).
C38_DisabledItemNeverFires ==
    [][EvaluatesItem =>
          LET item == schedule_items[idx] IN
          /\ ~item.enabled =>
                 /\ pc' = "pass"
                 /\ idx' = idx + 1
                 /\ UNCHANGED <<current_wallpaper, started, apply_rec, time_fires>>
          /\ (item.enabled /\ TriggerFires(item.trigger, loop_now)) => pc' = "stop_old"]_vars

\* C38 witness: the schedule was stored with its items switched off; a pass went
\* by with nothing applied; the checkbox then enabled the first item, and the
\* pass after that applied it, as the first backend ever started.
C38_Witness ==
    /\ store.items = PausedSchedule
    /\ Len(schedule_items) = 2
    /\ schedule_items[1].enabled
    /\ ~schedule_items[2].enabled
    /\ prev_tick.pass
    /\ last_tick.pass
    /\ pass_rec.done
    /\ apply_rec.before = NoBackend
    /\ apply_rec.start = "Ok"
    /\ current_wallpaper.id = 1
    /\ started = {1}


\* after is before without the item at index (counted from 0): one shorter, the
\* items ahead of it where they were, the items behind it moved up by one
RemovedExactly(before, after, index) ==
    /\ Len(after) = Len(before) - 1
    /\ \A k \in 1..Len(after) : after[k] = IF k <= index THEN before[k] ELSE before[k + 1]

\* after is before with item at index (counted from 0) and every other item as
\* and where it was
ReplacedExactly(before, after, index, item) ==
    /\ Len(after) = Len(before)
    /\ after[index + 1] = item
    /\ \A k \in 1..Len(before) : k # index + 1 => after[k] = before[k]

\* after is before followed by item
AppendedAtEnd(before, after, item) ==
    /\ Len(after) = Len(before) + 1
    /\ after[Len(after)] = item
    /\ \A k \in 1..Len(before) : after[k] = before[k]

\* The items an edit can have put into the list
EditedItems == ItemChoices \cup {schedule_items'[k] : k \in 1..Len(schedule_items')}

====
